---- MODULE Spec2Model ----
(***************************************************************************)
(* Model of the resilient structured-generation subsystem of              *)
(* support_analytics: the resumable batch orchestrators                   *)
(* (DatasetGeneratorService.generate, SupportQualityEvaluatorService      *)
(* .evaluate), the JSONL/JSON repository they persist through, the replay *)
(* cache, and the retry loop of GoogleGenAIStructuredClient.              *)
(***************************************************************************)
EXTENDS Integers, Sequences, FiniteSets, TLC

\* ------------------------------------------------------------------------
\* Bounds of the model
\* ------------------------------------------------------------------------
MaxItems == 3
MaxPrior == 2

\* ------------------------------------------------------------------------
\* Values
\* ------------------------------------------------------------------------
\* Marker of "no entry" in the in-memory dictionaries and in the cache.
None == -1

\* Planned identifiers are 1..M in planned order (chat_<seed>_<index+1>);
\* an identifier above M is one the current plan does not expect.
PlannedIds(m) == 1..m

Ids == 1..(MaxItems + 1)

\* Content of a result is tagged by the run that produced it (0 = produced
\* before the first modelled run).
Vals == 0..2

Entries == [id : Ids, val : Vals]

Kinds == {"generation", "evaluation"}

VARIABLES
    kind,        \* which orchestrator runs
    M,           \* number of planned items
    startFrom,   \* request.start_from
    resume,      \* request.resume_from_cache
    force,       \* request.force_refresh
    output,      \* durable output store: JSONL lines / report.records
    aggregate,   \* durable aggregate: manifest file / report summary fields
    cache,       \* replay cache: item -> stored value or None
    byId,        \* conversations_by_id / records_by_id
    idx,         \* 0-based index of the next planned item
    pc,          \* position of the run
    processed,   \* the local counter `processed`
    progress,    \* progress events emitted in this run
    calls,       \* items for which the provider was invoked in this run
    loads,       \* items for which ReplayCache.load was invoked in this run
    stores,      \* items for which ReplayCache.store was invoked in this run
    cur,         \* the result in flight for the current item
    wr,          \* the write_text call in progress
    persisted,   \* items whose persistence step completed in this run
    run,         \* number of the current run
    prev,        \* outcome of the previous run
    startOutput, \* output store as the current run found it
    startAggregate, \* aggregate as the current run found it
    startCache,  \* replay cache as the current run found it
    settings,    \* AppSettings read by the client
    model,       \* model of the current generate_structured call
    cpc,         \* position of the client
    path,        \* "native" or "fallback" request protocol
    attempt,     \* loop variable of the retry loop
    now,         \* time.monotonic(), in tenths of a second
    nextNotBefore, \* _next_request_not_before_by_model
    reqLog,      \* provider requests of the current call, with their replies
    sleepLog,    \* time.sleep calls of the current call
    lastError,   \* last_error of the retry loop
    outcome,     \* how the current call ended
    ncalls,      \* generate_structured calls made on this client
    lastRequestAt, \* per model, the time its latest provider request was issued
    steps,       \* validation and repair steps applied to the current payload
    fnIn,        \* arguments of the function under study
    fnOut,       \* its result
    peer,        \* a second run on the same output path, while suspended
    interleaved  \* the two runs have been scheduled in turns

orchVars == <<kind, M, startFrom, resume, force, output, aggregate, cache,
              byId, idx, pc, processed, progress, calls, loads, stores, cur,
              wr, persisted, run, prev, startOutput, startAggregate,
              startCache>>

clientVars == <<settings, model, cpc, path, attempt, now, nextNotBefore,
                reqLog, sleepLog, lastError, outcome, ncalls, lastRequestAt,
                steps>>

pureVars == <<fnIn, fnOut>>

raceVars == <<peer, interleaved>>

vars == <<orchVars, clientVars, pureVars, raceVars>>

\* ------------------------------------------------------------------------
\* Pure helpers
\* ------------------------------------------------------------------------
Range(s) == {s[k] : k \in 1..Len(s)}

IdsOf(entries) == {entries[k].id : k \in 1..Len(entries)}

EmptyDict == [i \in 1..MaxItems |-> None]

\* {conversation_id: conversation for conversation in existing if id in
\* expected_ids}: a later entry with the same identifier replaces an earlier.
LastIndexOf(entries, i) ==
    CHOOSE k \in 1..Len(entries) :
        /\ entries[k].id = i
        /\ \A j \in (k + 1)..Len(entries) : entries[j].id # i

\* Mutant: no existing entry is kept.
FilterExisting_KeepsNothing(entries, m) == EmptyDict

FilterExisting(entries, m) ==
    [i \in 1..MaxItems |->
        IF i \in PlannedIds(m) /\ i \in IdsOf(entries)
        THEN entries[LastIndexOf(entries, i)].val
        ELSE None]

\* Mutant: the result set is listed against the plan read backwards.
OrderedIds_Reversed(dict, m) ==
    LET ids == SelectSeq([i \in 1..m |-> i], LAMBDA i : dict[i] # None)
    IN  [k \in 1..Len(ids) |-> ids[Len(ids) + 1 - k]]

\* [by_id[item.id] for item in planned if item.id in by_id]
OrderedIds(dict, m) ==
    SelectSeq([i \in 1..m |-> i], LAMBDA i : dict[i] # None)

Ordered(dict, m) ==
    LET ids == OrderedIds(dict, m)
    IN  [k \in 1..Len(ids) |-> [id |-> ids[k], val |-> dict[ids[k]]]]

\* Ground-truth category of a planned conversation: fixed by its blueprint.
Issues == {0, 1}
IssueOf(i) == i % 2

\* quality_score carried by an evaluation of content tag v (1..5).
QualityOf(v) == v + 1
Scores == 1..5

RECURSIVE SumQuality(_)
SumQuality(entries) ==
    IF entries = <<>> THEN 0
    ELSE QualityOf(Head(entries).val) + SumQuality(Tail(entries))

\* round(mean(...), 2) in hundredths; 0.0 for no records.
AverageQuality(entries) ==
    IF entries = <<>> THEN 0
    ELSE (2 * 100 * SumQuality(entries) + Len(entries)) \div (2 * Len(entries))

build_dataset_manifest(entries) ==
    [state |-> "ok",
     total |-> Len(entries),
     byIssue |-> [c \in Issues |->
         Cardinality({k \in 1..Len(entries) : IssueOf(entries[k].id) = c})]]

build_evaluation_report(entries) ==
    [state |-> "ok",
     total |-> Len(entries),
     average |-> AverageQuality(entries),
     byScore |-> [s \in Scores |->
         Cardinality({k \in 1..Len(entries) : QualityOf(entries[k].val) = s})]]

Summary(k, entries) ==
    IF k = "generation" THEN build_dataset_manifest(entries)
    ELSE build_evaluation_report(entries)

AbsentFile == [state |-> "absent"]
TruncatedFile == [state |-> "truncated"]

\* ------------------------------------------------------------------------
\* ReplayCache: one file per key
\* ------------------------------------------------------------------------
\* payload.model_dump_json(indent=2): the text of a validated value.
model_dump_json(v) == [state |-> "ok", json |-> v]

\* No key has a file.
EmptyCache == [i \in 1..MaxItems |-> AbsentFile]

\* path.write_text: the file is opened, which empties it, ...
WriteTextTruncate(files, key) == [files EXCEPT ![key] = TruncatedFile]

\* ... and the text is written.
WriteTextContent(files, key, text) == [files EXCEPT ![key] = text]

\* Mutant: an existing entry is left as it is.
store_KeepsFirst(files, key, v) ==
    IF files[key] # AbsentFile THEN files
    ELSE WriteTextContent(files, key, model_dump_json(v))

\* ReplayCache.store, completed
store(files, key, v) ==
    WriteTextContent(WriteTextTruncate(files, key), key, model_dump_json(v))

\* What ReplayCache.load gives: a value, None, or the exception of
\* model_validate_json.
Loaded(v) == [raised |-> FALSE, value |-> v]
LoadRaised == [raised |-> TRUE, value |-> None]

\* Mutant: a file that cannot be parsed counts as no entry.
load_CorruptIsAbsent(files, key) ==
    IF files[key].state = "ok" THEN Loaded(files[key].json) ELSE Loaded(None)

\* Mutant: no entry is ever found.
load_AlwaysAbsent(files, key) == Loaded(None)

\* ReplayCache.load
load(files, key) ==
    IF files[key] = AbsentFile THEN Loaded(None)
    ELSE IF files[key].state = "ok" THEN Loaded(files[key].json)
    ELSE LoadRaised

NoWrite == [file |-> "none", entries |-> <<>>, ret |-> "none", persists |-> 0]
NoCur == [val |-> None, fromCache |-> FALSE]
NoPrev == [outcome |-> "none", completed |-> {}]

\* No second run works on the output path.
NoPeer == [pc |-> "none"]
SingleRun == peer = NoPeer /\ interleaved = FALSE

\* Sequences over S of length at most n.
SeqsUpTo(S, n) == UNION {[1..k -> S] : k \in 0..n}

\* The item the loop is at, and the status of the progress events.
CurrentId == idx + 1
EventIds(events) == {events[k][3] : k \in 1..Len(events)}

Terminal == {"done", "failed", "rejected", "readerror", "cacheerror", "killed"}

\* ------------------------------------------------------------------------
\* GoogleGenAIStructuredClient: settings, errors and the policy functions
\* ------------------------------------------------------------------------
\* Bounds of the client model
MaxRetries == 2

\* generate_structured calls followed on one client instance
MaxCalls == 2

\* Times are in tenths of a second.
NoDelay == -1

\* Time between the end of one generate_structured call and the next.
Elapsed == {0, 30}

Min(a, b) == IF a < b THEN a ELSE b
Max(a, b) == IF a > b THEN a ELSE b

RECURSIVE Pow2(_)
Pow2(n) == IF n = 0 THEN 1 ELSE 2 * Pow2(n - 1)

\* A model name is represented by the set of substrings the client looks
\* for in it.
Models == {"gemini-2.5-flash-lite", "gemma-3-27b-it", "custom-model"}

NameParts(m) ==
    IF m = "gemini-2.5-flash-lite" THEN {"2.5", "flash-lite", "flash"}
    ELSE IF m = "gemma-3-27b-it" THEN {"gemma"}
    ELSE {}

\* _minimum_request_interval_seconds_for_model
MinimumRequestInterval(cfg, m) ==
    IF cfg.minInterval # NoDelay THEN Max(0, cfg.minInterval)
    ELSE IF "gemma" \in NameParts(m) THEN 21
    ELSE IF {"2.5", "flash-lite"} \subseteq NameParts(m) THEN 41
    ELSE IF {"2.5", "flash"} \subseteq NameParts(m) THEN 61
    ELSE IF {"2.5", "pro"} \subseteq NameParts(m) THEN 121
    ELSE IF {"2.0", "flash-lite"} \subseteq NameParts(m) THEN 21
    ELSE IF {"2.0", "flash"} \subseteq NameParts(m) THEN 41
    ELSE 0

\* An error message is represented by the set of lower-case phrases that
\* occur in it.
QuotaMarkers ==
    {"per day", "daily", "quota", "billing",
     "limit 'generatecontentrequestsperday", "limit 'generatetokensperday",
     "free_tier"}

CapabilityMarkers ==
    {"json mode is not enabled", "response schema", "response_json_schema",
     "developer instruction is not enabled",
     "system instruction is not enabled"}

\* The text of a successful reply, by what it holds: a JSON object that
\* is valid, repairable or invalid for the schema; a valid object inside a
\* code fence or between other text ("embedded"); JSON whose top-level
\* value is no object ("nonobject"); braces around text that is no JSON
\* ("unbalanced"); no JSON and no braces at all ("nojson").
Bodies ==
    {"valid", "repairable", "invalid", "embedded", "nonobject", "unbalanced",
     "nojson"}

Reply(code, phrases, suggested, body) ==
    [code |-> code, phrases |-> phrases, suggested |-> suggested,
     body |-> body]

OkReplies == {Reply(200, {}, NoDelay, b) : b \in Bodies}

RateLimitReplies ==
    {Reply(429, {"rate limited"}, d, "none") : d \in {NoDelay, 20}}
        \cup {Reply(429, {"quota", "limit 'generatecontentrequestsperday"},
                    NoDelay, "none")}

\* The except clauses of the client name ClientError, the class
\* google.genai.errors gives to 4xx replies; a 5xx reply is raised by the
\* library as ServerError, which is no ClientError.
IsClientError(e) == e.code >= 400 /\ e.code < 500

OtherErrorReplies ==
    {Reply(400, {"json mode is not enabled"}, NoDelay, "none"),
     Reply(400, {"invalid argument"}, NoDelay, "none"),
     Reply(403, {"reported as leaked"}, NoDelay, "none"),
     Reply(403, {"permission denied"}, NoDelay, "none"),
     Reply(500, {"internal"}, NoDelay, "none")}

Replies == OkReplies \cup RateLimitReplies \cup OtherErrorReplies

NoError == Reply(0, {}, NoDelay, "none")

\* _is_non_transient_quota_error
IsNonTransientQuotaError(e) == e.phrases \cap QuotaMarkers # {}

\* Mutant: the attempt budget is one short.
ShouldRetry_OneShort(cfg, e, a) ==
    /\ e.code = 429
    /\ ~(cfg.failFast /\ IsNonTransientQuotaError(e))
    /\ a < cfg.maxRetries - 1

\* Mutant: the quota markers are not consulted.
ShouldRetry_NoFailFast(cfg, e, a) ==
    /\ e.code = 429
    /\ a < cfg.maxRetries

\* Mutant: one retry more than the budget.
ShouldRetry_OneMore(cfg, e, a) ==
    /\ e.code = 429
    /\ ~(cfg.failFast /\ IsNonTransientQuotaError(e))
    /\ a < cfg.maxRetries + 1

\* Mutant: the attempt budget is not consulted.
ShouldRetry_NoBudget(cfg, e, a) ==
    /\ e.code = 429
    /\ ~(cfg.failFast /\ IsNonTransientQuotaError(e))

\* _should_retry
ShouldRetry(cfg, e, a) ==
    /\ e.code = 429
    /\ ~(cfg.failFast /\ IsNonTransientQuotaError(e))
    /\ a < cfg.maxRetries

\* Mutant: the server-suggested delay is not capped.
RetryDelay_Uncapped(cfg, a, e) ==
    LET default == Min(cfg.baseDelay * Pow2(a), cfg.maxDelay)
    IN  IF e.suggested = NoDelay THEN default
        ELSE Max(default, e.suggested)

\* _retry_delay_seconds
RetryDelay(cfg, a, e) ==
    LET default == Min(cfg.baseDelay * Pow2(a), cfg.maxDelay)
    IN  IF e.suggested = NoDelay THEN default
        ELSE Min(Max(default, e.suggested), cfg.maxDelay)

\* Mutant: no error is taken for an unsupported feature.
ShouldFallback_Never(e) == FALSE

\* _should_fallback_to_prompt_json
ShouldFallback(e) == e.code = 400 /\ e.phrases \cap CapabilityMarkers # {}

\* Mutant: the fallback loop hands an unsupported-feature error to the
\* fallback as well.
EntersFallback_FromAnyPath(p, e) == ShouldFallback(e)

\* The except clause of generate_structured consults
\* _should_fallback_to_prompt_json; the except clause of
\* _generate_prompt_json_fallback translates and raises.
EntersFallback(p, e) == p = "native" /\ ShouldFallback(e)

\* _translate_client_error
TranslateClientError(cfg, e) ==
    IF e.code = 403 /\ "reported as leaked" \in e.phrases THEN "key_leaked"
    ELSE IF e.code = 403 THEN "denied"
    ELSE IF e.code = 429
    THEN IF cfg.failFast /\ IsNonTransientQuotaError(e)
         THEN "quota_exhausted" ELSE "rate_limited"
    ELSE "request_failed"

SettingsSet ==
    [maxRetries : 0..MaxRetries,
     baseDelay : {10, 30},
     maxDelay : {50},
     failFast : BOOLEAN,
     minInterval : {NoDelay, 0}]

DefaultSettings ==
    [maxRetries |-> 0, baseDelay |-> 10, maxDelay |-> 50,
     failFast |-> FALSE, minInterval |-> NoDelay]

\* The client as its constructor leaves it.
ClientIdle ==
    /\ model = "custom-model"
    /\ cpc = "idle"
    /\ path = "native"
    /\ attempt = 0
    /\ now = 0
    /\ nextNotBefore = [m \in Models |-> 0]
    /\ reqLog = <<>>
    /\ sleepLog = <<>>
    /\ lastError = NoError
    /\ outcome = "none"
    /\ ncalls = 0
    /\ lastRequestAt = [m \in Models |-> NoDelay]
    /\ steps = <<>>

\* No pure function is under study.
PureIdle == fnIn = <<>> /\ fnOut = <<>>

\* ------------------------------------------------------------------------
\* GoogleGenAIStructuredClient: generate_structured and its retry loops
\* ------------------------------------------------------------------------
Sleep(why, dur) ==
    [kind |-> why, dur |-> dur, path |-> path, after |-> Len(reqLog)]

\* generate_structured is called: the native retry loop starts at attempt 0
CallGenerateStructured ==
    /\ cpc = "idle"
    /\ ncalls' = ncalls + 1
    /\ model' \in Models
    /\ now' = now
    /\ path' = "native"
    /\ attempt' = 0
    /\ reqLog' = <<>>
    /\ sleepLog' = <<>>
    /\ lastError' = NoError
    /\ outcome' = "none"
    /\ steps' = <<>>
    /\ cpc' = "slot"
    /\ UNCHANGED <<orchVars, pureVars, raceVars, settings, nextNotBefore,
                   lastRequestAt>>

\* Mutant: the slot records the time of the request, not the next earliest
\* time.
NextRequestNotBefore_NoInterval(t, interval) == t

\* Mutant: the interval is counted from the start of the clock.
NextRequestNotBefore_FromZero(t, interval) == interval

\* self._next_request_not_before_by_model[model] = now + min_interval
NextRequestNotBefore(t, interval) == t + interval

\* Mutant: the time is recorded for every model.
RecordSlot_EveryModel(table, m, t) == [x \in DOMAIN table |-> t]

\* self._next_request_not_before_by_model[model] = ...
RecordSlot(table, m, t) == [table EXCEPT ![m] = t]

\* _wait_for_request_slot, at the head of every attempt
WaitForRequestSlot ==
    /\ cpc = "slot"
    /\ LET interval == MinimumRequestInterval(settings, model)
           wait == nextNotBefore[model] - now
       IN  IF interval <= 0
           THEN UNCHANGED <<now, nextNotBefore, sleepLog>>
           ELSE IF wait > 0
           THEN /\ sleepLog' = Append(sleepLog, Sleep("pacing", wait))
                /\ now' = now + wait
                /\ nextNotBefore' =
                       RecordSlot(nextNotBefore, model,
                                  NextRequestNotBefore(now + wait, interval))
           ELSE /\ sleepLog' = sleepLog
                /\ now' = now
                /\ nextNotBefore' =
                       RecordSlot(nextNotBefore, model,
                                  NextRequestNotBefore(now, interval))
    /\ cpc' = "request"
    /\ UNCHANGED <<orchVars, pureVars, raceVars, settings, model, path, attempt, reqLog,
                   lastError, outcome, ncalls, lastRequestAt, steps>>

Request(reply) ==
    [path |-> path, attempt |-> attempt, at |-> now, reply |-> reply]

\* self._client.models.generate_content(...) answers; an error reply is
\* handled by the except clause of the loop and, when it leaves the loop, by
\* the except clauses of generate_structured / _generate_prompt_json_fallback
ProviderReplies ==
    /\ cpc = "request"
    /\ \E reply \in Replies :
        /\ reqLog' = Append(reqLog, Request(reply))
        /\ lastRequestAt' = [lastRequestAt EXCEPT ![model] = now]
        /\ now' = now
        /\ IF reply.code = 200
           THEN /\ cpc' = "response"
                /\ UNCHANGED <<path, attempt, lastError, outcome>>
           ELSE IF ~IsClientError(reply)
           THEN \* no except clause matches: the error leaves the loop and
                \* generate_structured as the library raised it
                /\ cpc' = "raised"
                /\ outcome' = "provider_error_raw"
                /\ UNCHANGED <<path, attempt, lastError>>
           ELSE /\ lastError' = reply
                /\ IF ShouldRetry(settings, reply, attempt)
                   THEN /\ cpc' = "backoff"
                        /\ UNCHANGED <<path, attempt, outcome>>
                   ELSE IF EntersFallback(path, reply)
                   THEN /\ path' = "fallback"
                        /\ attempt' = 0
                        /\ cpc' = "slot"
                        /\ outcome' = outcome
                   ELSE /\ cpc' = "raised"
                        /\ outcome' = TranslateClientError(settings, reply)
                        /\ UNCHANGED <<path, attempt>>
    /\ UNCHANGED <<orchVars, pureVars, raceVars, settings, model, nextNotBefore, sleepLog,
                   ncalls, steps>>

\* time.sleep(self._retry_delay_seconds(attempt, error=error)), then the
\* next iteration of the loop
BackoffSleep ==
    /\ cpc = "backoff"
    /\ LET delay == RetryDelay(settings, attempt, lastError)
       IN  /\ sleepLog' = Append(sleepLog, Sleep("backoff", delay))
           /\ now' = now + delay
    /\ attempt' = attempt + 1
    /\ cpc' = "slot"
    /\ UNCHANGED <<orchVars, pureVars, raceVars, settings, model, path, nextNotBefore, reqLog,
                   lastError, outcome, ncalls, lastRequestAt, steps>>

\* json.loads(text) of the whole text succeeds.
IsJson(body) == body \in {"valid", "repairable", "invalid", "nonobject"}

\* payload = response.parsed if response.parsed is not None else
\* json.loads(response.text): any JSON value is a payload
Parses(body) == IsJson(body)

Extracted == [ok |-> TRUE, error |-> "none"]
ExtractFailed(error) == [ok |-> FALSE, error |-> error]

\* Mutant: whatever the text holds is handed on as the payload.
ExtractJsonPayload_AcceptsAnything(body) == Extracted

\* _extract_json_payload: the whole text (or the content of its fence) is
\* parsed; failing that, the text from the first "{" to the last "}" is;
\* a value that is no dict is refused
ExtractJsonPayload(body) ==
    IF IsJson(body)
    THEN IF body = "nonobject" THEN ExtractFailed("not_an_object")
         ELSE Extracted
    ELSE IF body = "nojson" THEN ExtractFailed("no_json_object")
    ELSE IF body = "unbalanced" THEN ExtractFailed("json_decode_error")
    ELSE Extracted

\* The payload, by what model_validate does with it: "valid" and the
\* object recovered from "embedded" pass, "repairable" fails and passes
\* after the repair, every other payload fails before and after.
Validates(body) == body \in {"valid", "embedded"}

\* Mutant: the second validation accepts whatever the repair returned.
ValidatesAfterRepair_Always(body) == TRUE

ValidatesAfterRepair(body) == body \in {"valid", "embedded", "repairable"}

ResponseBody == reqLog[Len(reqLog)].reply.body

\* payload = response.parsed / json.loads(response.text) on the native
\* path, _extract_json_payload(response.text) on the fallback path
ParsePayload ==
    /\ cpc = "response"
    /\ IF path = "native"
       THEN IF Parses(ResponseBody)
            THEN cpc' = "validate" /\ outcome' = outcome
            ELSE cpc' = "raised" /\ outcome' = "json_decode_error"
       ELSE LET extracted == ExtractJsonPayload(ResponseBody)
            IN  IF extracted.ok
                THEN cpc' = "validate" /\ outcome' = outcome
                ELSE cpc' = "raised" /\ outcome' = extracted.error
    /\ UNCHANGED <<orchVars, pureVars, raceVars, settings, model, path, attempt, now,
                   nextNotBefore, reqLog, sleepLog, lastError, ncalls,
                   lastRequestAt, steps>>

\* return response_schema.model_validate(payload)
ValidatePayload ==
    /\ cpc = "validate"
    /\ steps' = Append(steps, "validate")
    /\ IF Validates(ResponseBody)
       THEN cpc' = "returned" /\ outcome' = "value"
       ELSE cpc' = "repair" /\ outcome' = outcome
    /\ UNCHANGED <<orchVars, pureVars, raceVars, settings, model, path, attempt, now,
                   nextNotBefore, reqLog, sleepLog, lastError, ncalls,
                   lastRequestAt>>

\* except ValidationError: repaired_payload =
\* repair_payload_to_schema_constraints(payload, json_schema)
RepairPayload ==
    /\ cpc = "repair"
    /\ steps' = Append(steps, "repair")
    /\ cpc' = "revalidate"
    /\ UNCHANGED <<orchVars, pureVars, raceVars, settings, model, path, attempt, now,
                   nextNotBefore, reqLog, sleepLog, lastError, outcome,
                   ncalls, lastRequestAt>>

\* return response_schema.model_validate(repaired_payload); a second
\* ValidationError is raised as RuntimeError
RevalidatePayload ==
    /\ cpc = "revalidate"
    /\ steps' = Append(steps, "validate")
    /\ IF ValidatesAfterRepair(ResponseBody)
       THEN cpc' = "returned" /\ outcome' = "value"
       ELSE cpc' = "raised" /\ outcome' = "validation_failed"
    /\ UNCHANGED <<orchVars, pureVars, raceVars, settings, model, path, attempt, now,
                   nextNotBefore, reqLog, sleepLog, lastError, ncalls,
                   lastRequestAt>>

\* No orchestrator is running.
OrchestratorIdle ==
    /\ kind = "generation"
    /\ M = 0
    /\ startFrom = 0
    /\ resume = FALSE
    /\ force = FALSE
    /\ output = <<>>
    /\ aggregate = AbsentFile
    /\ cache = EmptyCache
    /\ byId = EmptyDict
    /\ idx = 0
    /\ pc = "rejected"
    /\ processed = 0
    /\ progress = <<>>
    /\ calls = <<>>
    /\ loads = <<>>
    /\ stores = <<>>
    /\ cur = NoCur
    /\ wr = NoWrite
    /\ persisted = {}
    /\ run = 2
    /\ prev = NoPrev
    /\ startOutput = <<>>
    /\ startAggregate = AbsentFile
    /\ startCache = EmptyCache
    /\ SingleRun

InitClient ==
    /\ settings \in SettingsSet
    /\ ClientIdle
    /\ OrchestratorIdle
    /\ PureIdle

NextClient ==
    \/ CallGenerateStructured
    \/ WaitForRequestSlot
    \/ ProviderReplies
    \/ BackoffSleep
    \/ ParsePayload
    \/ ValidatePayload
    \/ RepairPayload
    \/ RevalidatePayload

SpecClient == InitClient /\ [][NextClient]_vars

\* One call run to its end: the client is synchronous, so a step that can
\* be taken (a sleep that ends, a reply that arrives) is taken.
SpecClientLive == InitClient /\ [][NextClient]_vars /\ WF_vars(NextClient)

\* The orchestrator calls generate_structured for its next item on the same
\* client instance, some time after the previous call ended.
CallGenerateStructuredAgain ==
    /\ cpc \in {"returned", "raised"}
    /\ ncalls < MaxCalls
    /\ ncalls' = ncalls + 1
    /\ model' \in Models
    /\ \E elapsed \in Elapsed : now' = now + elapsed
    /\ path' = "native"
    /\ attempt' = 0
    /\ reqLog' = <<>>
    /\ sleepLog' = <<>>
    /\ lastError' = NoError
    /\ outcome' = "none"
    /\ steps' = <<>>
    /\ cpc' = "slot"
    /\ UNCHANGED <<orchVars, pureVars, raceVars, settings, nextNotBefore,
                   lastRequestAt>>

NextPacing == NextClient \/ CallGenerateStructuredAgain

\* Several calls on one client: one retry per loop is enough for a first
\* attempt, a retry attempt and a fallback request to follow one another.
InitPacing ==
    /\ InitClient
    /\ settings.maxRetries = 1
    /\ settings.baseDelay = 10

SpecPacing == InitPacing /\ [][NextPacing]_vars

\* ------------------------------------------------------------------------
\* repair_payload_to_schema_constraints
\* ------------------------------------------------------------------------
\* Bounds of the payloads
MaxLen == 4
MaxArr == 2

\* schema.get("maxLength") / schema.get("maxItems") is None
NoLimit == -1

\* A string is a sequence of characters; " " stands for whitespace and
\* Ellipsis for the one-character marker the repair appends.
Chars == {"a", " "}
Ellipsis == "..."

\* JSON values: a record whose one field names the Python type.
Str(v) == [str |-> v]
Num(v) == [num |-> v]
List(v) == [list |-> v]
Dict(v) == [dict |-> v]

\* isinstance(payload, ...)
IsStr(p) == DOMAIN p = {"str"}
IsList(p) == DOMAIN p = {"list"}
IsDict(p) == DOMAIN p = {"dict"}

\* Schema nodes.
StringSchema(maxLength) == [type |-> "string", maxLength |-> maxLength]
ArraySchema(maxItems, items) ==
    [type |-> "array", maxItems |-> maxItems, items |-> items]
ObjectSchema(properties) == [type |-> "object", properties |-> properties]
IntegerSchema == [type |-> "integer"]
NoSchema == [type |-> "absent"]

RECURSIVE RStrip(_)
RStrip(s) ==
    IF s # <<>> /\ s[Len(s)] = " " THEN RStrip(SubSeq(s, 1, Len(s) - 1))
    ELSE s

RECURSIVE LStrip(_)
LStrip(s) == IF s # <<>> /\ Head(s) = " " THEN LStrip(Tail(s)) ELSE s

Strip(s) == RStrip(LStrip(s))

\* Mutant: the slice is one element short.
Prefix_OneShort(s, n) == SubSeq(s, 1, Min(Len(s), n) - 1)

\* payload[:n] for n >= 0
Prefix(s, n) == SubSeq(s, 1, Min(Len(s), n))

\* the "string" branch
RepairString(s, maxLength) ==
    IF maxLength # NoLimit /\ Len(s) > maxLength
    THEN RStrip(Prefix(s, Max(0, maxLength - 1))) \o <<Ellipsis>>
    ELSE Strip(s)

RECURSIVE repair_payload_to_schema_constraints(_, _)
repair_payload_to_schema_constraints(payload, schema) ==
    IF schema.type = "object" /\ IsDict(payload)
    THEN Dict([key \in DOMAIN payload.dict |->
             IF key \in DOMAIN schema.properties
             THEN repair_payload_to_schema_constraints(
                      payload.dict[key], schema.properties[key])
             ELSE payload.dict[key]])
    ELSE IF schema.type = "array" /\ IsList(payload)
    THEN LET repaired_items ==
                 IF schema.maxItems # NoLimit
                 THEN Prefix(payload.list, schema.maxItems) ELSE payload.list
         IN  IF schema.items.type # "absent"
             THEN List([k \in 1..Len(repaired_items) |->
                      repair_payload_to_schema_constraints(
                          repaired_items[k], schema.items)])
             ELSE List(repaired_items)
    ELSE IF schema.type = "string" /\ IsStr(payload)
    THEN Str(RepairString(payload.str, schema.maxLength))
    ELSE payload

\* Arguments the function is applied to: strings of every length up to
\* MaxLen against every maxLength, arrays of sample strings against every
\* maxItems, an object with a string and an array property, and values
\* whose type is not the one the schema names.
Strings == SeqsUpTo(Chars, MaxLen)
Limits(n) == {NoLimit} \cup 0..n

SampleStrings == {<<"a">>, <<" ", "a", " ">>, <<"a", "a", "a">>}
SampleLists == {List(q) : q \in SeqsUpTo({Str(x) : x \in SampleStrings}, MaxArr + 1)}
ItemSchemas == {NoSchema, StringSchema(2)}
ArraySchemas == {ArraySchema(n, i) : n \in Limits(MaxArr), i \in ItemSchemas}

RepairInputs ==
    {[payload |-> Str(x), schema |-> StringSchema(n)] :
        x \in Strings, n \in Limits(MaxLen)}
    \cup {[payload |-> q, schema |-> a] : q \in SampleLists, a \in ArraySchemas}
    \cup {[payload |-> Dict([text |-> Str(x), tags |-> q]),
           schema |-> ObjectSchema([text |-> StringSchema(n), tags |-> a])] :
              x \in SampleStrings, q \in {List(<<>>), List(<<Str(<<"a", "a", "a">>)>>)},
              n \in {NoLimit, 2}, a \in {ArraySchema(0, NoSchema), ArraySchema(1, StringSchema(2))}}
    \cup {[payload |-> Num(7), schema |-> StringSchema(0)],
          [payload |-> Str(<<"a", " ">>), schema |-> IntegerSchema],
          [payload |-> Str(<<"a">>), schema |-> ArraySchema(0, NoSchema)]}

InitRepair ==
    /\ settings = DefaultSettings
    /\ ClientIdle
    /\ OrchestratorIdle
    /\ fnIn \in RepairInputs
    /\ fnOut = <<>>

ApplyRepair ==
    /\ fnOut = <<>>
    /\ fnOut' = <<repair_payload_to_schema_constraints(fnIn.payload,
                                                       fnIn.schema)>>
    /\ UNCHANGED <<orchVars, clientVars, raceVars, fnIn>>

SpecRepair == InitRepair /\ [][ApplyRepair]_vars

\* Every string of the value that has a maxLength is at most that long and
\* every array that has a maxItems has at most that many items, which are
\* the leading items of the original (repaired in their turn).
RECURSIVE WithinLimits(_, _, _)
WithinLimits(value, original, schema) ==
    IF schema.type = "object" /\ IsDict(value)
    THEN /\ IsDict(original)
         /\ DOMAIN value.dict = DOMAIN original.dict
         /\ \A key \in DOMAIN value.dict \cap DOMAIN schema.properties :
                WithinLimits(value.dict[key], original.dict[key],
                             schema.properties[key])
    ELSE IF schema.type = "array" /\ IsList(value)
    THEN /\ IsList(original)
         /\ schema.maxItems # NoLimit => Len(value.list) <= schema.maxItems
         /\ Len(value.list) <= Len(original.list)
         /\ \A k \in 1..Len(value.list) :
                IF schema.items.type = "absent"
                THEN value.list[k] = original.list[k]
                ELSE /\ DOMAIN value.list[k] = DOMAIN original.list[k]
                     /\ WithinLimits(value.list[k], original.list[k],
                                     schema.items)
    ELSE IF schema.type = "string" /\ IsStr(value)
    THEN schema.maxLength # NoLimit => Len(value.str) <= schema.maxLength
    ELSE TRUE

\* C16: for every payload and every schema (every maxLength >= 0 and every
\* maxItems >= 0), in the repaired payload each string that has a maxLength
\* is at most maxLength characters long and each array that has a maxItems
\* has at most maxItems items, the leading items of the original in order.
C16_RepairedWithinLimits ==
    fnOut # <<>> => WithinLimits(fnOut[1], fnIn.payload, fnIn.schema)

\* ------------------------------------------------------------------------
\* ReplayCache.build_key
\* ------------------------------------------------------------------------
\* json.dumps of a str: the quote and the backslash are escaped.
RECURSIVE EscapeString(_)
EscapeString(str) ==
    IF str = <<>> THEN <<>>
    ELSE (IF Head(str) \in {"\"", "\\"} THEN <<"\\", Head(str)>>
          ELSE <<Head(str)>>) \o EscapeString(Tail(str))

DumpString(str) == <<"\"">> \o EscapeString(str) \o <<"\"">>

\* json.dumps of an int: its decimal digits.
Digit(d) == SubSeq(<<"0", "1", "2", "3", "4", "5", "6", "7", "8", "9">>,
                   d + 1, d + 1)

RECURSIVE DumpNat(_)
DumpNat(n) == IF n < 10 THEN Digit(n) ELSE DumpNat(n \div 10) \o Digit(n % 10)

DumpInt(n) == IF n < 0 THEN <<"-">> \o DumpNat(0 - n) ELSE DumpNat(n)

\* One "key": value member; the name of a key is a single symbol.
Member(name, dumped) == <<"\"", name, "\"", ":", " ">> \o dumped

\* Mutant: the schema name is left out of what is hashed.
CanonicalSerialization_NoSchemaName(f) ==
    <<"{">> \o Member("model", DumpString(f.model))
        \o <<",", " ">> \o Member("namespace", DumpString(f.namespace))
        \o <<",", " ">> \o Member("prompt", DumpString(f.prompt))
        \o <<",", " ">> \o Member("seed", DumpInt(f.seed))
        \o <<",", " ">> \o Member("system_instruction",
                                  DumpString(f.system_instruction))
        \o <<"}">>

\* json.dumps({...}, ensure_ascii=False, sort_keys=True)
CanonicalSerialization(f) ==
    <<"{">> \o Member("model", DumpString(f.model))
        \o <<",", " ">> \o Member("namespace", DumpString(f.namespace))
        \o <<",", " ">> \o Member("prompt", DumpString(f.prompt))
        \o <<",", " ">> \o Member("schema_name", DumpString(f.schema_name))
        \o <<",", " ">> \o Member("seed", DumpInt(f.seed))
        \o <<",", " ">> \o Member("system_instruction",
                                  DumpString(f.system_instruction))
        \o <<"}">>

\* sha256(...).hexdigest(): a digest is represented by the text it was
\* computed from, that is, the hash is taken to be free of collisions.
Sha256Hex(text) == <<"sha256", text>>

build_key(f) == Sha256Hex(CanonicalSerialization(f))

\* Requests: the two namespaces and schema names of the orchestrators, and
\* texts that hold the characters the serialization gives a meaning to.
KeyFields ==
    [namespace : {<<"dataset_generation">>, <<"support_evaluation">>},
     model : {<<"a">>, <<"a", "\"">>},
     seed : {1, 12},
     system_instruction : {<<>>, <<"\"", ",", " ", "\"">>},
     prompt : {<<"a">>, <<"a", "\\">>, <<"a", "\\", "\"">>},
     schema_name : {<<"ConversationDraft">>, <<"ConversationEvaluation">>}]

InitKey ==
    /\ settings = DefaultSettings
    /\ ClientIdle
    /\ OrchestratorIdle
    /\ fnIn \in [a : KeyFields, b : KeyFields]
    /\ fnOut = <<>>

ApplyBuildKey ==
    /\ fnOut = <<>>
    /\ fnOut' = <<[a |-> build_key(fnIn.a), b |-> build_key(fnIn.b)]>>
    /\ UNCHANGED <<orchVars, clientVars, raceVars, fnIn>>

SpecKey == InitKey /\ [][ApplyBuildKey]_vars

KeyFieldNames ==
    {"namespace", "model", "seed", "system_instruction", "prompt",
     "schema_name"}

\* C17: two requests equal in namespace, model, seed, system instruction,
\* prompt and schema name get the same cache key, and two requests that
\* differ in any of the six fields get different keys.
C17_KeyIsInjectiveOnRequest ==
    fnOut # <<>> =>
        (fnOut[1].a = fnOut[1].b) =
            (\A name \in KeyFieldNames : fnIn.a[name] = fnIn.b[name])

C17_Witness ==
    /\ fnOut # <<>>
    /\ fnOut[1].a # fnOut[1].b
    /\ fnIn.a.prompt = <<"a", "\\">>
    /\ fnIn.b.prompt = <<"a", "\\", "\"">>
    /\ \A name \in KeyFieldNames \ {"prompt"} : fnIn.a[name] = fnIn.b[name]

\* ------------------------------------------------------------------------
\* ReplayCache used on its own: stores and loads on one storage root
\* ------------------------------------------------------------------------
\* Bound of the number of stores
MaxStores == 3

\* fnIn is the sequence of completed stores, fnOut the latest load.
InitCache ==
    /\ settings = DefaultSettings
    /\ ClientIdle
    /\ OrchestratorIdle
    /\ PureIdle

CacheStore ==
    /\ Len(fnIn) < MaxStores
    /\ \E key \in 1..MaxItems, v \in Vals :
           /\ cache' = store(cache, key, v)
           /\ fnIn' = Append(fnIn, [key |-> key, val |-> v])
    /\ fnOut' = <<>>
    /\ UNCHANGED <<kind, M, startFrom, resume, force, output, aggregate,
                   byId, idx, pc, processed, progress, calls, loads, stores,
                   cur, wr, persisted, run, prev, startOutput,
                   startAggregate, startCache, clientVars, raceVars>>

\* load by the instance that stored, or by a ReplayCache constructed anew
\* on the same root: an instance holds nothing but the root.
CacheLoad ==
    /\ \E key \in 1..MaxItems, instance \in {"same", "fresh"} :
           fnOut' = <<[key |-> key, instance |-> instance,
                       result |-> load(cache, key)]>>
    /\ UNCHANGED <<orchVars, clientVars, raceVars, fnIn>>

NextCache == CacheStore \/ CacheLoad

SpecCache == InitCache /\ [][NextCache]_vars

\* The value of the latest store under a key, None when there was none.
StoresUnder(history, key) ==
    {j \in 1..Len(history) : history[j].key = key}

LatestStored(history, key) ==
    IF StoresUnder(history, key) = {} THEN None
    ELSE history[CHOOSE j \in StoresUnder(history, key) :
                    \A k \in StoresUnder(history, key) : k <= j].val

LoopRequests == SelectSeq(reqLog, LAMBDA r : r.path = path)
LoopSleeps == SelectSeq(sleepLog, LAMBDA z : z.path = path)
LoopBackoffs == SelectSeq(LoopSleeps, LAMBDA z : z.kind = "backoff")
LoopPacings == SelectSeq(LoopSleeps, LAMBDA z : z.kind = "pacing")

\* A rate-limit error the client treats as transient.
IsTransientRateLimit(e) ==
    e.code = 429 /\ ~(settings.failFast /\ IsNonTransientQuotaError(e))

\* The retry loop has just returned a successful response.
LoopReturned == cpc = "response"

\* The client holds a request slot and is about to issue a request.
AboutToRequest == cpc = "request"

\* Position in reqLog of the j-th request of the current loop.
LoopOffset == Len(reqLog) - Len(LoopRequests)

C10_QuotaErrorIsNeverRetried ==
    settings.failFast =>
        \A j \in 1..Len(reqLog) :
            (reqLog[j].reply.code = 429
                /\ IsNonTransientQuotaError(reqLog[j].reply)) =>
                /\ j = Len(reqLog)
                /\ cpc = "raised"
                /\ outcome = "quota_exhausted"
                /\ \A z \in Range(sleepLog) : z.after < j

C10_Witness ==
    /\ settings.failFast
    /\ settings.maxRetries = 2
    /\ Len(reqLog) = 2
    /\ reqLog[2].attempt = 1
    /\ reqLog[2].reply.code = 429
    /\ IsNonTransientQuotaError(reqLog[2].reply)
    /\ cpc = "raised"

\* ------------------------------------------------------------------------
\* Properties of the fallback protocol and of error handling
\* ------------------------------------------------------------------------
\* An unsupported-feature error: status 400 with a capability marker.
IsUnsupportedFeature(e) ==
    e.code = 400 /\ e.phrases \cap CapabilityMarkers # {}

NativeRequests == SelectSeq(reqLog, LAMBDA r : r.path = "native")
FallbackRequests == SelectSeq(reqLog, LAMBDA r : r.path = "fallback")

\* C13: an unsupported-feature error from the native structured request
\* does not end generate: it is the last native request and the client goes
\* on with the plain-prompt fallback loop from attempt 0; in that loop every
\* attempt holds a pacing slot, a transient rate-limit error is followed by
\* the computed backoff sleep and the next attempt up to max-retries, and a
\* reply whose JSON object is valid is returned as the result.
C13_UnsupportedFeatureFallsBack ==
    LET n == Len(NativeRequests)
        f == Len(FallbackRequests)
        interval == MinimumRequestInterval(settings, model)
    IN  /\ \A j \in 1..Len(reqLog) :
               (reqLog[j].path = "native"
                   /\ IsUnsupportedFeature(reqLog[j].reply)) =>
                   /\ j = n
                   /\ path = "fallback"
                   /\ \A k \in (j + 1)..Len(reqLog) :
                          /\ reqLog[k].path = "fallback"
                          /\ reqLog[k].attempt = k - j - 1
                   /\ Len(reqLog) = j => (cpc \in {"slot", "request"}
                                             /\ attempt = 0)
        /\ path = "fallback" =>
               /\ n >= 1 /\ IsUnsupportedFeature(reqLog[n].reply)
               /\ f <= settings.maxRetries + 1
               /\ (AboutToRequest /\ interval > 0) =>
                      nextNotBefore[model] = now + interval
               /\ \A k \in 1..(f - 1) :
                      /\ IsTransientRateLimit(FallbackRequests[k].reply)
                      /\ \E z \in Range(sleepLog) :
                             /\ z.kind = "backoff"
                             /\ z.after = n + k
                             /\ z.dur = RetryDelay(settings, k - 1,
                                            FallbackRequests[k].reply)
               /\ (cpc = "raised" /\ f >= 1
                      /\ IsTransientRateLimit(FallbackRequests[f].reply)) =>
                      f = settings.maxRetries + 1
               /\ (cpc \in {"returned", "raised"} /\ f >= 1
                      /\ FallbackRequests[f].reply.code = 200
                      /\ FallbackRequests[f].reply.body = "valid") =>
                      cpc = "returned" /\ outcome = "value"

C13_Witness ==
    /\ cpc = "returned"
    /\ outcome = "value"
    /\ path = "fallback"
    /\ Len(reqLog) = 3
    /\ IsUnsupportedFeature(reqLog[1].reply)
    /\ IsTransientRateLimit(reqLog[2].reply)
    /\ reqLog[3].reply.body = "valid"
    /\ MinimumRequestInterval(settings, model) = 21
    /\ Len(sleepLog) = 2

\* The messages _translate_client_error produces.
DomainErrors ==
    {"key_leaked", "denied", "quota_exhausted", "rate_limited",
     "request_failed"}

\* C14: a provider error that is neither a retryable rate limit nor an
\* unsupported-feature error of the native request is the last request of
\* the call, no sleep follows it, and generate ends with a translated
\* domain error, never with the provider's own error.
C14_ProviderErrorsAreTranslated ==
    \A j \in 1..Len(reqLog) :
        LET r == reqLog[j]
        IN  (r.reply.code # 200
                /\ ~ShouldRetry(settings, r.reply, r.attempt)
                /\ ~(r.path = "native" /\ IsUnsupportedFeature(r.reply))) =>
                /\ j = Len(reqLog)
                /\ cpc = "raised"
                /\ outcome \in DomainErrors
                /\ \A z \in Range(sleepLog) : z.after < j

\* C15: a payload that fails validation is repaired once and validated
\* once more; if it fails again generate ends with the validation error.
\* From the first validation on, no provider request is made, no sleep is
\* taken and no second repair is applied.
C15_OneRepairThenTerminal ==
    /\ \E n \in 0..3 : steps = SubSeq(<<"validate", "repair", "validate">>, 1, n)
    /\ steps # <<>> =>
           /\ cpc \in {"repair", "revalidate", "returned", "raised"}
           /\ reqLog[Len(reqLog)].reply.code = 200
           /\ \A z \in Range(sleepLog) : z.after < Len(reqLog)
    /\ (steps # <<>> /\ cpc \in {"returned", "raised"}) =>
           IF Validates(ResponseBody)
           THEN steps = <<"validate">> /\ cpc = "returned"
           ELSE /\ steps = <<"validate", "repair", "validate">>
                /\ ResponseBody = "invalid" =>
                       cpc = "raised" /\ outcome = "validation_failed"
                /\ ResponseBody = "repairable" =>
                       cpc = "returned" /\ outcome = "value"

C15_Witness ==
    /\ cpc = "raised"
    /\ outcome = "validation_failed"
    /\ steps = <<"validate", "repair", "validate">>
    /\ ResponseBody = "invalid"
    /\ Len(reqLog) = 2

\* ------------------------------------------------------------------------
\* _retry_delay_seconds applied to settings, attempts and errors
\* ------------------------------------------------------------------------
\* llm_retry_base_delay_seconds and llm_retry_max_delay_seconds are floats
\* without constraints: the base may be zero or exceed the maximum.
DelaySettings ==
    [maxRetries : {MaxRetries}, baseDelay : {0, 10, 30, 70},
     maxDelay : {5, 50}, failFast : {FALSE}, minInterval : {NoDelay}]

\* _parse_retry_delay_seconds returns max(0.0, value) or None.
SuggestedDelays == {NoDelay, 0, 20, 70}

DelayInputs ==
    [cfg : DelaySettings, attempt : 0..MaxRetries,
     error : {Reply(429, {"rate limited"}, d, "none") : d \in SuggestedDelays}]

InitDelay ==
    /\ settings = DefaultSettings
    /\ ClientIdle
    /\ OrchestratorIdle
    /\ fnIn \in DelayInputs
    /\ fnOut = <<>>

ApplyRetryDelay ==
    /\ fnOut = <<>>
    /\ fnOut' = <<RetryDelay(fnIn.cfg, fnIn.attempt, fnIn.error)>>
    /\ UNCHANGED <<orchVars, clientVars, raceVars, fnIn>>

SpecDelay == InitDelay /\ [][ApplyRetryDelay]_vars

\* C12: the backoff delay for attempt a is min(base * 2^a, maxDelay) when
\* the error carries no server-suggested delay and
\* min(max(min(base * 2^a, maxDelay), suggested), maxDelay) when it does;
\* it never exceeds maxDelay and a suggested delay never makes it shorter
\* than the pure exponential backoff.
C12_BackoffDelayFormula ==
    fnOut # <<>> =>
        LET base == fnIn.cfg.baseDelay
            maxDelay == fnIn.cfg.maxDelay
            suggested == fnIn.error.suggested
            exponential ==
                IF base * Pow2(fnIn.attempt) < maxDelay
                THEN base * Pow2(fnIn.attempt) ELSE maxDelay
        IN  /\ suggested = NoDelay => fnOut[1] = exponential
            /\ suggested # NoDelay =>
                   fnOut[1] = Min(Max(exponential, suggested), maxDelay)
            /\ fnOut[1] <= maxDelay
            /\ fnOut[1] >= exponential

C12_Witness ==
    /\ fnOut = <<50>>
    /\ fnIn.cfg.baseDelay = 10
    /\ fnIn.cfg.maxDelay = 50
    /\ fnIn.attempt = 1
    /\ fnIn.error.suggested = 70

PriorOutputs(m) == SeqsUpTo([id : 1..(m + 1), val : {0}], MaxPrior)

PriorCaches(m) ==
    {EmptyCache,
     [i \in 1..MaxItems |->
         IF i \in PlannedIds(m) THEN model_dump_json(0) ELSE AbsentFile]}

InitRun ==
    /\ kind \in Kinds
    /\ M \in 0..MaxItems
    /\ startFrom \in 0..(M + 1)
    /\ resume \in BOOLEAN
    /\ force \in BOOLEAN
    /\ output \in PriorOutputs(M)
    /\ aggregate \in
          IF output = <<>> THEN {AbsentFile, Summary(kind, <<>>)}
          ELSE {Summary(kind, output)}
    /\ cache \in PriorCaches(M)
    /\ byId = EmptyDict
    /\ idx = 0
    /\ pc = "start"
    /\ processed = 0
    /\ progress = <<>>
    /\ calls = <<>>
    /\ loads = <<>>
    /\ stores = <<>>
    /\ cur = NoCur
    /\ wr = NoWrite
    /\ persisted = {}
    /\ run = 1
    /\ prev = NoPrev
    /\ startOutput = output
    /\ startAggregate = aggregate
    /\ startCache = cache
    /\ settings = DefaultSettings
    /\ ClientIdle
    /\ PureIdle
    /\ SingleRun

\* ------------------------------------------------------------------------
\* JsonlRepository: write_text truncates the file when it opens it and
\* writes the new content afterwards; append_jsonl adds one line.
\* ------------------------------------------------------------------------
BeginWrite(file, entries, ret, persists) ==
    /\ wr' = [file |-> file, entries |-> entries, ret |-> ret,
              persists |-> persists]
    /\ pc' = "write_open"

WriteTextOpen ==
    /\ pc = "write_open"
    /\ output' = IF wr.file \in {"output", "report"} THEN <<>> ELSE output
    /\ aggregate' = IF wr.file \in {"manifest", "report"} THEN TruncatedFile
                     ELSE aggregate
    /\ pc' = "write_flush"
    /\ UNCHANGED <<kind, M, startFrom, resume, force, cache, byId, idx,
                   processed, progress, calls, loads, stores, cur, wr,
                   persisted, run, prev, startOutput, startAggregate, startCache, clientVars, pureVars, raceVars>>

WrittenOutput(w, old) ==
    IF w.file \in {"output", "report"} THEN w.entries ELSE old

WrittenAggregate(w, old) ==
    IF w.file = "manifest" THEN build_dataset_manifest(w.entries)
    ELSE IF w.file = "report" THEN build_evaluation_report(w.entries)
    ELSE old

WriteTextFlush ==
    /\ pc = "write_flush"
    /\ output' = WrittenOutput(wr, output)
    /\ aggregate' = WrittenAggregate(wr, aggregate)
    /\ persisted' = IF wr.persists = 0 THEN persisted
                     ELSE persisted \cup {wr.persists}
    /\ pc' = wr.ret
    /\ wr' = NoWrite
    /\ UNCHANGED <<kind, M, startFrom, resume, force, cache, byId, idx,
                   processed, progress, calls, loads, stores, cur, run, prev,
                   startOutput, startAggregate, startCache, clientVars, pureVars, raceVars>>

\* Mutant: the appended line never reaches the file.
append_jsonl_Dropped(lines, entry) == lines

\* Mutant: the line is put in front of the file.
append_jsonl_AtFront(lines, entry) == <<entry>> \o lines

append_jsonl(lines, entry) == Append(lines, entry)

\* ------------------------------------------------------------------------
\* Startup of a run
\* ------------------------------------------------------------------------
\* evaluate(): an empty input is answered with an empty report, before the
\* start_from check.
EmptyInput == kind = "evaluation" /\ M = 0

\* Mutant: the range check is off by one.
OutOfRange_OffByOne == startFrom > M

\* if request.start_from >= len(planned): raise RuntimeError
OutOfRange == startFrom >= M

\* Mutant: only force_refresh resets the output.
ResetsOutput_ForceOnly == force

\* Mutant: every run starts from an empty output.
ResetsOutput_Always == TRUE

\* if force_refresh or not resume_from_cache
ResetsOutput == force \/ ~resume

OutputFile == IF kind = "generation" THEN "output" ELSE "report"

EvaluateEmptyInput ==
    /\ pc = "start"
    /\ EmptyInput
    /\ BeginWrite("report", <<>>, "done", 0)
    /\ UNCHANGED <<kind, M, startFrom, resume, force, output, aggregate,
                   cache, byId, idx, processed, progress, calls, loads,
                   stores, cur, persisted, run, prev, startOutput,
                   startAggregate, startCache, clientVars, pureVars, raceVars>>

\* Mutant: the range is checked after the existing output was loaded in a
\* run that resets it.
RejectStartFrom_AfterLoading ==
    /\ pc = "start"
    /\ ~EmptyInput
    /\ OutOfRange
    /\ pc' = "rejected"
    /\ output' = IF ResetsOutput THEN <<>> ELSE output
    /\ UNCHANGED <<kind, M, startFrom, resume, force, aggregate,
                   cache, byId, idx, processed, progress, calls, loads,
                   stores, cur, wr, persisted, run, prev, startOutput,
                   startAggregate, startCache, clientVars, pureVars,
                   raceVars>>

\* if request.start_from >= len(...): raise RuntimeError, before the
\* existing output is looked at
RejectStartFrom ==
    /\ pc = "start"
    /\ ~EmptyInput
    /\ OutOfRange
    /\ pc' = "rejected"
    /\ UNCHANGED <<kind, M, startFrom, resume, force, output, aggregate,
                   cache, byId, idx, processed, progress, calls, loads,
                   stores, cur, wr, persisted, run, prev, startOutput,
                   startAggregate, startCache, clientVars, pureVars, raceVars>>

\* Mutant: the loop starts one item early.
FirstProcessedIndex_OneEarly == Max(0, startFrom - 1)

\* for blueprint in blueprints[request.start_from:]
FirstProcessedIndex == startFrom

\* _load_existing_conversations / _load_existing_records, reset branch
LoadExistingReset ==
    /\ pc = "start"
    /\ ~EmptyInput
    /\ ~OutOfRange
    /\ ResetsOutput
    /\ byId' = EmptyDict
    /\ idx' = FirstProcessedIndex
    /\ BeginWrite(OutputFile, <<>>, "loop", 0)
    /\ UNCHANGED <<kind, M, startFrom, resume, force, output, aggregate,
                   cache, processed, progress, calls, loads, stores, cur,
                   persisted, run, prev, startOutput, startAggregate, startCache, clientVars, pureVars, raceVars>>

\* Mutant: the existing entries are written back as they were read.
normalized_conversations_AsRead(entries, m) == entries

\* [filtered[id] for id in expected_conversation_ids if id in filtered]
normalized_conversations(entries, m) == Ordered(FilterExisting(entries, m), m)

\* _load_existing_conversations / _load_existing_records, resume branch
LoadExistingResume ==
    /\ pc = "start"
    /\ ~EmptyInput
    /\ ~OutOfRange
    /\ ~ResetsOutput
    /\ idx' = FirstProcessedIndex
    /\ IF kind = "evaluation" /\ aggregate = AbsentFile
       THEN \* read_json returned None: nothing is written
            /\ byId' = EmptyDict
            /\ pc' = "loop"
            /\ wr' = wr
       ELSE IF kind = "evaluation" /\ aggregate = TruncatedFile
       THEN \* model_validate_json raises on a file that is no report
            /\ byId' = byId
            /\ pc' = "readerror"
            /\ wr' = wr
       ELSE /\ byId' = FilterExisting(output, M)
            /\ BeginWrite(OutputFile, normalized_conversations(output, M),
                          "loop", 0)
    /\ UNCHANGED <<kind, M, startFrom, resume, force, output, aggregate,
                   cache, processed, progress, calls, loads, stores, cur,
                   persisted, run, prev, startOutput, startAggregate, startCache, clientVars, pureVars, raceVars>>

\* ------------------------------------------------------------------------
\* The per-item loop
\* ------------------------------------------------------------------------
\* Mutant: the total reported is the length of the whole plan.
Event_TotalIsPlanned(status) == <<processed + 1, M, CurrentId, status>>

\* (completed, total, conversation_id, status) with processed already
\* incremented and total_to_process = len(planned) - start_from
Event(status) == <<processed + 1, M - startFrom, CurrentId, status>>

\* Mutant: the resume flag is tested the wrong way round.
HasOutputEntry_Inverted == ~resume /\ byId[CurrentId] # None

\* Mutant: the output entries are not consulted.
HasOutputEntry_Never == FALSE

\* if request.resume_from_cache and id in by_id
HasOutputEntry == resume /\ byId[CurrentId] # None

\* Mutant: force_refresh is not consulted before the cache is read.
ReadsCache_IgnoresForce == resume

\* if request.resume_from_cache and not request.force_refresh
ReadsCache == resume /\ ~force

ReuseOutput ==
    /\ pc = "loop"
    /\ idx < M
    /\ HasOutputEntry
    /\ processed' = processed + 1
    /\ progress' = Append(progress, Event("reused-output"))
    /\ idx' = idx + 1
    /\ UNCHANGED <<kind, M, startFrom, resume, force, output, aggregate,
                   cache, byId, pc, calls, loads, stores, cur, wr, persisted,
                   run, prev, startOutput, startAggregate, startCache, clientVars, pureVars, raceVars>>

\* Mutant: the slice of the plan is enumerated from 0.
EnumerateIndex_FromZero(start_from, k) == k

\* enumerate(conversations[start_from:], start=start_from): the index of
\* the k-th item of the slice (blueprint.generation_seed = seed + index is
\* fixed by the plan in the same way)
EnumerateIndex(start_from, k) == start_from + k

\* build_key(namespace, model, seed + index, system_instruction, prompt,
\* schema_name): within one plan and model the keys differ by the seed and
\* the prompt of the item; a key is numbered by its seed offset.
CacheKey == EnumerateIndex(startFrom, idx - startFrom) + 1

\* build the request and its key; ReplayCache.load when the flags allow it
LookupCache ==
    /\ pc = "loop"
    /\ idx < M
    /\ ~HasOutputEntry
    /\ IF ReadsCache
       THEN /\ loads' = Append(loads, CacheKey)
            /\ LET found == load(cache, CacheKey)
               IN  IF found.raised
                   THEN \* the exception leaves the loop
                        /\ cur' = NoCur
                        /\ pc' = "cacheerror"
                   ELSE IF found.value # None
                   THEN /\ cur' = [val |-> found.value, fromCache |-> TRUE]
                        /\ pc' = "persist"
                   ELSE /\ cur' = NoCur
                        /\ pc' = "call"
       ELSE /\ loads' = loads
            /\ cur' = NoCur
            /\ pc' = "call"
    /\ UNCHANGED <<kind, M, startFrom, resume, force, output, aggregate,
                   cache, byId, idx, processed, progress, calls, stores, wr,
                   persisted, run, prev, startOutput, startAggregate, startCache, clientVars, pureVars, raceVars>>

\* self._llm.generate_structured(...) returns a validated object
GenerateStructuredOk ==
    /\ pc = "call"
    /\ calls' = Append(calls, CurrentId)
    /\ cur' = [val |-> run, fromCache |-> FALSE]
    /\ pc' = "store"
    /\ UNCHANGED <<kind, M, startFrom, resume, force, output, aggregate,
                   cache, byId, idx, processed, progress, loads, stores, wr,
                   persisted, run, prev, startOutput, startAggregate, startCache, clientVars, pureVars, raceVars>>

\* self._llm.generate_structured(...) raises: the loop does not catch it
GenerateStructuredError ==
    /\ pc = "call"
    /\ calls' = Append(calls, CurrentId)
    /\ pc' = "failed"
    /\ UNCHANGED <<kind, M, startFrom, resume, force, output, aggregate,
                   cache, byId, idx, processed, progress, loads, stores, cur,
                   wr, persisted, run, prev, startOutput, startAggregate, startCache, clientVars, pureVars, raceVars>>

\* self._replay_cache.store(cache_key, result): write_text opens the file
StoreCacheOpen ==
    /\ pc = "store"
    /\ cache' = WriteTextTruncate(cache, CacheKey)
    /\ stores' = Append(stores, CacheKey)
    /\ pc' = "store_flush"
    /\ UNCHANGED <<kind, M, startFrom, resume, force, output, aggregate,
                   byId, idx, processed, progress, calls, loads, cur, wr,
                   persisted, run, prev, startOutput, startAggregate, startCache, clientVars, pureVars, raceVars>>

\* ... and writes the dumped result
StoreCacheFlush ==
    /\ pc = "store_flush"
    /\ cache' = store(cache, CacheKey, cur.val)
    /\ pc' = "persist"
    /\ UNCHANGED <<kind, M, startFrom, resume, force, output, aggregate,
                   byId, idx, processed, progress, calls, loads, stores, cur,
                   wr, persisted, run, prev, startOutput, startAggregate,
                   startCache, clientVars, pureVars, raceVars>>

\* Mutant: the result is not recorded in the dictionary.
Merged_Forgets(dict, i, v) == dict

Merged(dict, i, v) == [dict EXCEPT ![i] = v]

\* by_id[id] = result; generation appends the line and rewrites the
\* manifest, evaluation rewrites the report
PersistItem ==
    /\ pc = "persist"
    /\ byId' = Merged(byId, CurrentId, cur.val)
    /\ IF kind = "generation"
       THEN /\ output' = append_jsonl(output,
                              [id |-> CurrentId, val |-> cur.val])
            /\ persisted' = persisted \cup {CurrentId}
            /\ BeginWrite("manifest",
                          Ordered(Merged(byId, CurrentId, cur.val), M),
                          "notify", 0)
       ELSE /\ output' = output
            /\ persisted' = persisted
            /\ BeginWrite("report",
                          Ordered(Merged(byId, CurrentId, cur.val), M),
                          "notify", CurrentId)
    /\ UNCHANGED <<kind, M, startFrom, resume, force, aggregate, cache, idx,
                   processed, progress, calls, loads, stores, cur, run, prev,
                   startOutput, startAggregate, startCache, clientVars, pureVars, raceVars>>

\* Mutant: every persisted item is reported as generated.
ReportedStatus_AlwaysGenerated(was_loaded_from_cache) == "generated"

\* status="reused-cache" if was_loaded_from_cache else "generated"
ReportedStatus(was_loaded_from_cache) ==
    IF was_loaded_from_cache THEN "reused-cache" ELSE "generated"

NotifyProgress ==
    /\ pc = "notify"
    /\ processed' = processed + 1
    /\ progress' = Append(progress, Event(ReportedStatus(cur.fromCache)))
    /\ idx' = idx + 1
    /\ cur' = NoCur
    /\ pc' = "loop"
    /\ UNCHANGED <<kind, M, startFrom, resume, force, output, aggregate,
                   cache, byId, calls, loads, stores, wr, persisted, run,
                   prev, startOutput, startAggregate, startCache, clientVars, pureVars, raceVars>>

\* ------------------------------------------------------------------------
\* End of run
\* ------------------------------------------------------------------------
WriteFinalOutput ==
    /\ pc = "loop"
    /\ idx = M
    /\ BeginWrite(OutputFile, Ordered(byId, M),
                  IF kind = "generation" THEN "end_manifest" ELSE "done", 0)
    /\ UNCHANGED <<kind, M, startFrom, resume, force, output, aggregate,
                   cache, byId, idx, processed, progress, calls, loads,
                   stores, cur, persisted, run, prev, startOutput,
                   startAggregate, startCache, clientVars, pureVars, raceVars>>

WriteFinalManifest ==
    /\ pc = "end_manifest"
    /\ BeginWrite("manifest", Ordered(byId, M), "done", 0)
    /\ UNCHANGED <<kind, M, startFrom, resume, force, output, aggregate,
                   cache, byId, idx, processed, progress, calls, loads,
                   stores, cur, persisted, run, prev, startOutput,
                   startAggregate, startCache, clientVars, pureVars, raceVars>>

\* ------------------------------------------------------------------------
\* Specification of one run
\* ------------------------------------------------------------------------
RunStep ==
    \/ EvaluateEmptyInput
    \/ RejectStartFrom
    \/ LoadExistingReset
    \/ LoadExistingResume
    \/ ReuseOutput
    \/ LookupCache
    \/ GenerateStructuredOk
    \/ GenerateStructuredError
    \/ StoreCacheOpen
    \/ StoreCacheFlush
    \/ PersistItem
    \/ NotifyProgress
    \/ WriteFinalOutput
    \/ WriteFinalManifest
    \/ WriteTextOpen
    \/ WriteTextFlush

\* External process termination: possible at every step of a run; the
\* in-memory state of the run is lost, durable storage stays as it is.
Kill ==
    /\ pc \notin Terminal
    /\ pc' = "killed"
    /\ byId' = EmptyDict
    /\ idx' = 0
    /\ processed' = 0
    /\ cur' = NoCur
    /\ wr' = NoWrite
    /\ UNCHANGED <<kind, M, startFrom, resume, force, output, aggregate,
                   cache, progress, calls, loads, stores, persisted, run,
                   prev, startOutput, startAggregate, startCache, clientVars, pureVars, raceVars>>

\* A following run over the same plan, with parameters of its own, against
\* the durable storage the previous run left.
NextRun ==
    /\ pc \in Terminal
    /\ run = 1
    /\ run' = run + 1
    /\ prev' = [outcome |-> pc, completed |-> EventIds(progress)]
    /\ startFrom' \in 0..(M + 1)
    /\ resume' \in BOOLEAN
    /\ force' \in BOOLEAN
    /\ byId' = EmptyDict
    /\ idx' = 0
    /\ pc' = "start"
    /\ processed' = 0
    /\ progress' = <<>>
    /\ calls' = <<>>
    /\ loads' = <<>>
    /\ stores' = <<>>
    /\ cur' = NoCur
    /\ wr' = NoWrite
    /\ persisted' = {}
    /\ startOutput' = output
    /\ startAggregate' = aggregate
    /\ startCache' = cache
    /\ UNCHANGED <<kind, M, output, aggregate, cache, clientVars, pureVars, raceVars>>

Next == RunStep \/ Kill \/ NextRun

Spec == InitRun /\ [][Next]_vars

\* The output of the ended run is removed (the report is one file; the
\* manifest of a dataset may stay or go), then the plan is run again.
NextRunOutputRemoved ==
    /\ pc \in Terminal
    /\ run = 1
    /\ run' = run + 1
    /\ prev' = [outcome |-> pc, completed |-> EventIds(progress)]
    /\ output' = <<>>
    /\ aggregate' \in IF kind = "generation" THEN {aggregate, AbsentFile}
                     ELSE {AbsentFile}
    /\ startFrom' \in 0..(M + 1)
    /\ resume' \in BOOLEAN
    /\ force' \in BOOLEAN
    /\ byId' = EmptyDict
    /\ idx' = 0
    /\ pc' = "start"
    /\ processed' = 0
    /\ progress' = <<>>
    /\ calls' = <<>>
    /\ loads' = <<>>
    /\ stores' = <<>>
    /\ cur' = NoCur
    /\ wr' = NoWrite
    /\ persisted' = {}
    /\ startOutput' = output'
    /\ startAggregate' = aggregate'
    /\ startCache' = cache
    /\ UNCHANGED <<kind, M, cache, clientVars, pureVars, raceVars>>

NextReplay == RunStep \/ NextRunOutputRemoved

SpecReplay == InitRun /\ [][NextReplay]_vars

\* ------------------------------------------------------------------------
\* Properties of the orchestrators
\* ------------------------------------------------------------------------
Statuses(events) == [k \in 1..Len(events) |-> events[k][4]]
EventItems(events) == [k \in 1..Len(events) |-> events[k][3]]
OutputIds(entries) == [k \in 1..Len(entries) |-> entries[k].id]
PlannedOrder(S, m) == SelectSeq([i \in 1..m |-> i], LAMBDA i : i \in S)

\* Planned items that had an entry in the output the run started against.
StartPlanned == IdsOf(startOutput) \cap PlannedIds(M)

\* The run started against an output holding exactly the first N planned
\* items (N = Cardinality(StartPlanned)).
StartHoldsFirstN == StartPlanned = 1..Cardinality(StartPlanned)

ResumeRunFromZero ==
    resume /\ ~force /\ startFrom = 0 /\ startCache = EmptyCache

\* C1: a successful resume run (resumeFromCache, no forceRefresh,
\* startFrom 0, empty replay cache) against an output holding the first N
\* of M planned items makes exactly M-N provider calls, reports the first
\* N items as reused-output, and ends with all M items in planned order in
\* the output and in the aggregate.
C1_ResumeCallsOnlyMissing ==
    (pc = "done" /\ ResumeRunFromZero /\ StartHoldsFirstN) =>
        LET N == Cardinality(StartPlanned)
        IN  /\ Len(calls) = M - N
            /\ Len(progress) = M
            /\ \A k \in 1..N :
                   progress[k][3] = k /\ progress[k][4] = "reused-output"
            /\ \A k \in (N + 1)..M : progress[k][4] = "generated"
            /\ OutputIds(output) = [i \in 1..M |-> i]
            /\ aggregate = Summary(kind, output)
            /\ aggregate.total = M

C1_Witness ==
    /\ pc = "done"
    /\ ResumeRunFromZero
    /\ StartHoldsFirstN
    /\ Cardinality(StartPlanned) = 2
    /\ M = 3
    /\ Len(calls) = 1

\* C2: a successful run without resumeFromCache (startFrom 0) has an empty
\* output right after startup, calls the provider for every planned item
\* (every status is generated) and ends with an output and an aggregate
\* made of exactly the M results of this run.
C2_NoResumeRegeneratesAll ==
    /\ (~resume /\ pc = "loop" /\ idx = startFrom /\ processed = 0) =>
           output = <<>> /\ byId = EmptyDict
    /\ (~resume /\ startFrom = 0 /\ pc = "done") =>
           /\ calls = [i \in 1..M |-> i]
           /\ Statuses(progress) = [i \in 1..M |-> "generated"]
           /\ output = [i \in 1..M |-> [id |-> i, val |-> run]]
           /\ aggregate = Summary(kind, output)

C2_Witness ==
    /\ ~resume
    /\ startFrom = 0
    /\ pc = "done"
    /\ M >= 2
    /\ StartPlanned # {}
    /\ Len(calls) = M

\* C3: with forceRefresh the replay cache is never read during the run,
\* and the provider is invoked once for every item from startFrom on, every
\* reported status being generated.
C3_ForceRefreshNeverReadsCache ==
    force =>
        /\ loads = <<>>
        /\ pc = "done" =>
              /\ calls = [k \in 1..(M - startFrom) |-> startFrom + k]
              /\ Statuses(progress) =
                     [k \in 1..(M - startFrom) |-> "generated"]

C3_Witness ==
    /\ force
    /\ resume
    /\ pc = "done"
    /\ M >= 2
    /\ StartPlanned = PlannedIds(M)
    /\ \A i \in PlannedIds(M) : startCache[i] # AbsentFile
    /\ Len(calls) = M

\* C4 as stated: after a run that ended in a terminal provider error, a
\* following run with resumeFromCache over the same plan (from startFrom 0)
\* reports every item the failed run completed as reused-output and does
\* not call the provider for it.
C4_AnyResumeRunReusesCompleted ==
    (run = 2 /\ prev.outcome = "failed" /\ resume /\ startFrom = 0
        /\ pc = "done") =>
        \A i \in prev.completed :
            /\ i \notin Range(calls)
            /\ \E k \in 1..Len(progress) :
                   progress[k][3] = i /\ progress[k][4] = "reused-output"

\* C4 amended: a terminal provider error for item k ends the run with no
\* provider request, cache write, progress event or persisted result for a
\* later item, every item completed in the run is in the output store, and
\* a following run with resumeFromCache and without forceRefresh does not
\* call the provider for any of them and reports each one it processes
\* (index >= startFrom) as reused-output.
C4_FailureKeepsCompletedItems ==
    /\ pc = "failed" =>
           /\ calls # <<>> /\ calls[Len(calls)] = CurrentId
           /\ \A i \in PlannedIds(M) : i > CurrentId =>
                  /\ i \notin Range(calls)
                  /\ i \notin Range(stores)
                  /\ i \notin EventIds(progress)
                  /\ i \notin persisted
           /\ CurrentId \notin EventIds(progress) \cup persisted
           /\ EventIds(progress) \subseteq IdsOf(output)
    /\ (run = 2 /\ prev.outcome = "failed" /\ resume /\ ~force) =>
           \A i \in prev.completed :
               /\ i \notin Range(calls)
               /\ \A k \in 1..Len(progress) :
                      progress[k][3] = i => progress[k][4] = "reused-output"
               /\ (pc = "done" /\ i > startFrom) =>
                      i \in EventIds(progress)

C4_Witness ==
    /\ run = 2
    /\ prev.outcome = "failed"
    /\ Cardinality(prev.completed) = 2
    /\ resume
    /\ ~force
    /\ startFrom = 0
    /\ pc = "done"
    /\ Len(calls) = 1

\* The aggregate on durable storage summarises the output store (no
\* aggregate at all counts as the summary of an empty store).
AggregateMatchesOutput ==
    \/ aggregate = Summary(kind, output)
    \/ aggregate = AbsentFile /\ output = <<>>

\* C5: wherever a run can stop (after startup, after each processed item,
\* at the end of the run, on a terminal error) the aggregate on durable
\* storage is the summary of the entries in the output store.
C5_AggregateAlwaysMatchesOutput ==
    pc \in {"loop", "done", "failed"} => AggregateMatchesOutput

\* C6: when a run is stopped externally, every item whose persistence step
\* completed earlier in that run is still in the output store.
C6_StopLosesNoCompletedItem ==
    pc = "killed" => persisted \subseteq IdsOf(output)

\* Items that have a result when the run ends: those kept from the prior
\* output (resume mode only) and those processed by this run.
ExpectedFinalIds ==
    (IF ResetsOutput THEN {} ELSE StartPlanned)
        \cup {i \in PlannedIds(M) : i > startFrom}

\* C7: at the end of a successful run the output store holds exactly the
\* planned items that have a result, each once, in planned order, the
\* reused ones with their prior content; a run with startFrom = s against
\* an empty output ends with exactly the items from s on.
C7_FinalOutputPlannedOrder ==
    pc = "done" =>
        /\ OutputIds(output) = PlannedOrder(ExpectedFinalIds, M)
        /\ \A k \in 1..Len(output) :
               (~ResetsOutput /\ output[k].id \in StartPlanned) =>
                   output[k].val = FilterExisting(startOutput, M)[output[k].id]
        /\ startOutput = <<>> =>
               OutputIds(output) = [k \in 1..(M - startFrom) |-> startFrom + k]

C7_Witness ==
    /\ pc = "done"
    /\ startFrom = 1
    /\ M = 3
    /\ resume
    /\ ~force
    /\ OutputIds(startOutput) = <<3, 1>>
    /\ OutputIds(output) = <<1, 2, 3>>

\* C8 as stated: for both orchestrators and every M >= 0, a run whose
\* startFrom is >= M is rejected and makes no provider call.
C8_OutOfRangeAlwaysRejected ==
    (startFrom >= M /\ pc \notin {"start", "killed"}) =>
        pc = "rejected" /\ calls = <<>>

\* C8 amended: a run whose startFrom is >= M makes no provider call; it is
\* rejected with a configuration error by the generation orchestrator for
\* every M >= 0 and by the evaluation orchestrator for every M >= 1; the
\* evaluation orchestrator with M = 0 writes an empty report and returns.
C8_OutOfRangeRejectedUnlessEmptyInput ==
    (startFrom >= M /\ pc \notin {"start", "killed"}) =>
        /\ calls = <<>>
        /\ progress = <<>>
        /\ IF kind = "evaluation" /\ M = 0
           THEN /\ pc \in {"write_open", "write_flush", "done"}
                /\ pc = "done" =>
                       output = <<>> /\ aggregate = Summary(kind, <<>>)
           ELSE pc = "rejected"

C8_Witness ==
    /\ pc = "rejected"
    /\ kind = "evaluation"
    /\ M = 2
    /\ startFrom = M
    /\ calls = <<>>

\* ------------------------------------------------------------------------
\* Properties of the replay cache inside a run
\* ------------------------------------------------------------------------
\* A cache file that exists and cannot be parsed (write_text was cut short).
IsCorrupt(file) == file # AbsentFile /\ file.state # "ok"

\* C19: ReplayCache.load returns absent exactly when the key has no entry,
\* and fails with a read error on an entry that exists and is corrupt: the
\* run goes on to the provider for an item only when its key has no entry
\* (or the cache is not read at all), it uses the stored value when the
\* entry is sound, and it aborts, without calling the provider for that
\* item, when the entry is corrupt.
C19_CorruptEntryAbortsRun ==
    /\ (pc = "call" /\ ReadsCache) => startCache[CurrentId] = AbsentFile
    /\ \A k \in 1..Len(loads) :
           LET i == loads[k]
               file == startCache[i]
           IN  /\ file = AbsentFile =>
                      /\ pc # "cacheerror" \/ k < Len(loads)
                      /\ (k < Len(loads) \/ pc \in {"done", "failed"}) =>
                             i \in Range(calls)
               /\ (file # AbsentFile /\ ~IsCorrupt(file)) =>
                      /\ i \notin Range(calls)
                      /\ pc # "cacheerror" \/ k < Len(loads)
                      /\ (pc = "persist" /\ CurrentId = i) =>
                             cur = [val |-> file.json, fromCache |-> TRUE]
               /\ IsCorrupt(file) =>
                      /\ k = Len(loads)
                      /\ pc = "cacheerror"
                      /\ CurrentId = i
                      /\ i \notin Range(calls)
                      /\ i \notin Range(stores)
                      /\ i \notin EventIds(progress)
    /\ pc = "cacheerror" =>
           loads # <<>> /\ IsCorrupt(startCache[loads[Len(loads)]])

C19_Witness ==
    /\ pc = "cacheerror"
    /\ run = 2
    /\ prev.outcome = "killed"
    /\ IsCorrupt(startCache[CurrentId])
    /\ CurrentId = 2
    /\ Len(loads) = 2
    /\ calls = <<>>

\* C20 as stated: no run with forceRefresh=false writes a key that already
\* has an entry.
C20_NoOverwriteWithoutForce ==
    ~force => \A i \in Range(stores) : startCache[i] = AbsentFile

\* C20 amended: a cache entry is written only after a successful
\* generation for its key, and a run with resumeFromCache and without
\* forceRefresh never writes a key that already has an entry; a run without
\* resumeFromCache, like one with forceRefresh, does not read the cache and
\* overwrites the entry of every item it generates.
C20_ResumeRunWritesOnlyNewKeys ==
    /\ \A i \in Range(stores) : i \in Range(calls)
    /\ (resume /\ ~force) =>
           \A i \in Range(stores) : startCache[i] = AbsentFile
    /\ (~resume \/ force) =>
           /\ loads = <<>>
           /\ pc = "done" =>
                  \A i \in PlannedIds(M) : i > startFrom =>
                      i \in Range(stores) /\ cache[i] = model_dump_json(run)

C20_Witness ==
    /\ resume
    /\ ~force
    /\ pc = "done"
    /\ M = 3
    /\ startFrom = 0
    /\ startOutput = <<>>
    /\ startCache[1] # AbsentFile
    /\ startCache[3] = AbsentFile
    /\ stores = <<3>>
    /\ Len(loads) = 3

\* ------------------------------------------------------------------------
\* Properties of the progress notifications
\* ------------------------------------------------------------------------
ProgressStatuses == {"generated", "reused-cache", "reused-output"}

\* C21: the k-th progress event of a run with startFrom = s reports
\* completed = k, total = M - s, the k-th item from s on in planned order
\* and one of the three statuses; a successful run over M > s items has
\* emitted exactly M - s events, the last with completed = total.
C21_ProgressCountsEveryItem ==
    /\ \A k \in 1..Len(progress) :
           /\ progress[k][1] = k
           /\ progress[k][2] = M - startFrom
           /\ progress[k][3] = startFrom + k
           /\ progress[k][4] \in ProgressStatuses
    /\ Len(progress) = processed \/ pc \in Terminal
    /\ (pc = "done" /\ startFrom < M) =>
           /\ Len(progress) = M - startFrom
           /\ progress[Len(progress)][1] = progress[Len(progress)][2]

C21_Witness ==
    /\ pc = "done"
    /\ M = 3
    /\ startFrom = 1
    /\ Len(progress) = 2
    /\ progress[1] = <<1, 2, 2, "reused-output">>
    /\ progress[2] = <<2, 2, 3, "generated">>

\* ------------------------------------------------------------------------
\* Termination and resource bounds of one generate_structured call
\* ------------------------------------------------------------------------
CallEnded == cpc \in {"returned", "raised"}

Backoffs == SelectSeq(sleepLog, LAMBDA z : z.kind = "backoff")
Pacings == SelectSeq(sleepLog, LAMBDA z : z.kind = "pacing")

\* Two retry loops of max-retries + 1 attempts each; a backoff sleep follows
\* a failed attempt that is retried, a pacing sleep precedes a request.
WithinCallBounds ==
    LET R == settings.maxRetries
    IN  /\ Len(reqLog) <= 2 * (R + 1)
        /\ Len(Backoffs) <= 2 * R
        /\ Len(Pacings) <= 2 * (R + 1)
        /\ \A z \in Range(Backoffs) : z.dur <= settings.maxDelay
        /\ \A z \in Range(Pacings) :
               z.dur > 0 /\ z.dur <= MinimumRequestInterval(settings, model)

\* C22: every generate_structured call ends, with a result or an error,
\* whatever the provider replies; in one call there are at most
\* 2 * (max-retries + 1) provider requests, at most 2 * max-retries backoff
\* sleeps, each at most the maximum delay, and at most one pacing sleep per
\* request, each at most the minimum interval of the model.
C22_CallTerminatesWithinBounds ==
    /\ []WithinCallBounds
    /\ (cpc = "slot") ~> CallEnded

C22_Witness ==
    /\ CallEnded
    /\ settings.maxRetries = 2
    /\ Len(reqLog) = 6
    /\ Len(Backoffs) = 4
    /\ Len(Pacings) = 3
    /\ \E z \in Range(Backoffs) : z.dur = settings.maxDelay

\* ------------------------------------------------------------------------
\* build_response_json_schema
\* ------------------------------------------------------------------------
\* A text is a one-element string; a reference "#/$defs/Name" is the string
\* of its segments between the slashes.
Text(t) == Str(<<t>>)
Ref(name) == Dict("$ref" :> Str(<<"#", "$defs", name>>))

\* The keys dict() of no items has.
EmptyMapping == <<>>

\* Mutant: titles are kept.
StrippedKeywords_KeepsTitle ==
    {"$defs", "$schema", "additionalProperties", "default"}

\* if key in {"$defs", "$schema", "additionalProperties", "title", "default"}
StrippedKeywords ==
    {"$defs", "$schema", "additionalProperties", "title", "default"}

\* str(node["$ref"]).split("/")[-1]
RefName(node) == node.dict["$ref"].str[Len(node.dict["$ref"].str)]

\* {**resolved, **{key: value for key, value in node.items() if key != "$ref"}}
Merge(resolved, node) ==
    [key \in DOMAIN resolved \cup (DOMAIN node \ {"$ref"}) |->
        IF key \in DOMAIN node THEN node[key] ELSE resolved[key]]

\* _normalize(node, preserve_mapping_keys=...) with the definitions of the
\* raw schema
RECURSIVE Normalize(_, _, _)
Normalize(node, preserve_mapping_keys, definitions) ==
    IF IsList(node)
    THEN List([k \in 1..Len(node.list) |->
                  Normalize(node.list[k], FALSE, definitions)])
    ELSE IF ~IsDict(node) THEN node
    ELSE IF "$ref" \in DOMAIN node.dict
    THEN LET ref_name == RefName(node)
             resolved == IF ref_name \in DOMAIN definitions
                         THEN definitions[ref_name].dict ELSE EmptyMapping
         IN  Normalize(Dict(Merge(resolved, node.dict)), FALSE, definitions)
    ELSE IF preserve_mapping_keys
    THEN Dict([key \in DOMAIN node.dict |->
                  Normalize(node.dict[key], FALSE, definitions)])
    ELSE Dict([key \in DOMAIN node.dict \ StrippedKeywords |->
                  Normalize(node.dict[key], key = "properties", definitions)])

\* raw_schema.get("$defs", {})
DefinitionsOf(raw_schema) ==
    IF "$defs" \in DOMAIN raw_schema.dict THEN raw_schema.dict["$defs"].dict
    ELSE EmptyMapping

build_response_json_schema(raw_schema) ==
    Normalize(raw_schema, FALSE, DefinitionsOf(raw_schema))

\* Descriptors as model_json_schema() writes them: an enumeration and an
\* object in $defs, the object referring to the enumeration and having
\* properties called title and default.
ActorRoleDef ==
    Dict([title |-> Text("ActorRole"), type |-> Text("string"),
          enum |-> List(<<Text("customer"), Text("agent")>>)])

DraftTurnDef ==
    Dict([title |-> Text("DraftTurn"), type |-> Text("object"),
          additionalProperties |-> Text("false"),
          properties |->
              Dict([title |-> Dict([title |-> Text("Title"),
                                    type |-> Text("string")]),
                    default |-> Dict([title |-> Text("Default"),
                                      type |-> Text("string"),
                                      default |-> Text("none")]),
                    role |-> Ref("ActorRole")]),
          required |-> List(<<Text("title"), Text("role")>>)])

PropertyNodes ==
    {Dict([title |-> Text("Name"), type |-> Text("string"),
           maxLength |-> Text("80")]),
     Dict([title |-> Text("Name"), type |-> Text("string"),
           default |-> Dict([title |-> Text("x")])]),
     Ref("DraftTurn"),
     Dict(Ref("DraftTurn").dict
              @@ [description |-> Text("last turn"), default |-> Text("null")]),
     Dict([title |-> Text("Turns"), type |-> Text("array"),
           items |-> Ref("DraftTurn")]),
     Dict([title |-> Text("Who"),
           anyOf |-> List(<<Ref("ActorRole"), Dict([type |-> Text("null")])>>),
           default |-> Text("null")])}

PropertyNames == {"title", "default", "turns"}

RawSchema(first, a, second, b, dialect) ==
    Dict((IF dialect THEN "$schema" :> Text("https://json-schema.org/draft/2020-12/schema")
          ELSE EmptyMapping)
         @@ "$defs" :> Dict([ActorRole |-> ActorRoleDef, DraftTurn |-> DraftTurnDef])
         @@ [title |-> Text("ConversationDraft"),
             type |-> Text("object"),
             additionalProperties |-> Text("false"),
             properties |-> Dict(first :> a @@ second :> b),
             required |-> List(<<Text(first)>>)])

RawSchemas ==
    {RawSchema(first, a, second, b, dialect) :
        first \in PropertyNames, second \in PropertyNames,
        a \in PropertyNodes, b \in PropertyNodes, dialect \in BOOLEAN}

InitSchema ==
    /\ settings = DefaultSettings
    /\ ClientIdle
    /\ OrchestratorIdle
    /\ fnIn \in RawSchemas
    /\ fnOut = <<>>

\* Two calls with the same descriptor.
ApplyBuildSchema ==
    /\ fnOut = <<>>
    /\ fnOut' = <<[first |-> build_response_json_schema(fnIn),
                   second |-> build_response_json_schema(fnIn)]>>
    /\ UNCHANGED <<orchVars, clientVars, raceVars, fnIn>>

SpecSchema == InitSchema /\ [][ApplyBuildSchema]_vars

\* The keywords and the reference key the wire schema must not hold.
ForbiddenKeys ==
    {"$ref", "$defs", "$schema", "additionalProperties", "title", "default"}

\* No schema node of the value, at any depth, holds a forbidden key; the
\* keys of a "properties" mapping are names of properties, not keywords.
RECURSIVE FreeOfForbidden(_, _)
FreeOfForbidden(value, isPropertyMapping) ==
    IF IsList(value)
    THEN \A k \in 1..Len(value.list) : FreeOfForbidden(value.list[k], FALSE)
    ELSE IF ~IsDict(value) THEN TRUE
    ELSE IF isPropertyMapping
    THEN \A key \in DOMAIN value.dict :
             FreeOfForbidden(value.dict[key], FALSE)
    ELSE /\ DOMAIN value.dict \cap ForbiddenKeys = {}
         /\ \A key \in DOMAIN value.dict :
                FreeOfForbidden(value.dict[key], key = "properties")

\* The DraftTurn and ActorRole definitions as they stand in the wire schema.
InlinedActorRole ==
    Dict([type |-> Text("string"),
          enum |-> List(<<Text("customer"), Text("agent")>>)])

InlinedDraftTurn ==
    Dict([type |-> Text("object"),
          properties |->
              Dict([title |-> Dict([type |-> Text("string")]),
                    default |-> Dict([type |-> Text("string")]),
                    role |-> InlinedActorRole]),
          required |-> List(<<Text("title"), Text("role")>>)])

\* C23: the wire schema holds no reference node and no $defs, $schema,
\* additionalProperties, title or default keyword at any depth; a reference
\* stands replaced by its definition, inlined in its turn; the properties
\* keep their names, title and default included; and two conversions of
\* one descriptor give the same wire schema.
C23_WireSchemaIsInlinedAndStripped ==
    fnOut # <<>> =>
        LET wire == fnOut[1].first.dict
            rawProperties == fnIn.dict.properties.dict
        IN  /\ FreeOfForbidden(fnOut[1].first, FALSE)
            /\ DOMAIN wire.properties.dict = DOMAIN rawProperties
            /\ \A name \in DOMAIN rawProperties :
                   /\ rawProperties[name] = Ref("DraftTurn") =>
                          wire.properties.dict[name] = InlinedDraftTurn
                   /\ ("description" \in DOMAIN rawProperties[name].dict) =>
                          wire.properties.dict[name] =
                              Dict(InlinedDraftTurn.dict
                                   @@ [description |-> Text("last turn")])
                   /\ ("items" \in DOMAIN rawProperties[name].dict) =>
                          wire.properties.dict[name].dict.items = InlinedDraftTurn
                   /\ ("anyOf" \in DOMAIN rawProperties[name].dict) =>
                          wire.properties.dict[name].dict.anyOf.list[1] =
                              InlinedActorRole
            /\ fnOut[1].second = fnOut[1].first

C23_Witness ==
    /\ fnOut # <<>>
    /\ DOMAIN fnIn.dict = {"$schema", "$defs", "title", "type",
                           "additionalProperties", "properties", "required"}
    /\ DOMAIN fnIn.dict.properties.dict = {"title", "default"}
    /\ fnIn.dict.properties.dict.title = Ref("DraftTurn")
    /\ DOMAIN fnOut[1].first.dict = {"type", "properties", "required"}
    /\ DOMAIN fnOut[1].first.dict.properties.dict = {"title", "default"}
    /\ fnOut[1].first.dict.properties.dict.title = InlinedDraftTurn

\* ------------------------------------------------------------------------
\* Properties of the per-item decision
\* ------------------------------------------------------------------------
\* Planned items with an entry in the output store once startup is over.
KeptAtStartup == IF ResetsOutput THEN {} ELSE StartPlanned

StatusOf(i) ==
    progress[CHOOSE k \in 1..Len(progress) : progress[k][3] = i][4]

\* C24: ReplayCache.load is called for an item only in a run with
\* resumeFromCache and without forceRefresh, and only when the item has no
\* entry in the output store; a run without resumeFromCache never reads
\* the cache, whatever it holds; an item that has an output entry is
\* reported reused-output without the cache being read, whether or not
\* the cache holds an entry for it.
C24_CacheReadOnlyWhenNoOutputEntry ==
    /\ \A i \in Range(loads) :
           resume /\ ~force /\ i \notin KeptAtStartup
    /\ (loads # <<>> /\ pc \in {"call", "persist", "cacheerror"}) =>
           CurrentId \notin IdsOf(output)
    /\ ~resume => loads = <<>>
    /\ \A i \in KeptAtStartup :
           /\ i \notin Range(loads)
           /\ i \in EventIds(progress) => StatusOf(i) = "reused-output"

C24_Witness ==
    /\ pc = "done"
    /\ resume
    /\ ~force
    /\ M = 3
    /\ startFrom = 0
    /\ OutputIds(startOutput) = <<2>>
    /\ \A i \in PlannedIds(M) : startCache[i] = model_dump_json(0)
    /\ loads = <<1, 3>>
    /\ Statuses(progress) = <<"reused-cache", "reused-output", "reused-cache">>

\* Number of times x occurs in the sequence s.
Count(s, x) == Cardinality({k \in 1..Len(s) : s[k] = x})

\* C25: for every item a run has processed, the provider was called for
\* it exactly when its status is generated, and ReplayCache.store was
\* called, once, under the item's key and with the generated value, exactly
\* when the provider call succeeded: a failed call is followed by no store,
\* and an item reported reused-cache or reused-output has no provider call
\* and no cache write.
C25_CallAndStoreOnlyForGenerated ==
    /\ \A i \in EventIds(progress) :
           /\ (i \in Range(calls)) = (StatusOf(i) = "generated")
           /\ (i \in Range(stores)) = (StatusOf(i) = "generated")
           /\ StatusOf(i) = "generated" =>
                  /\ Count(calls, i) = 1
                  /\ Count(stores, i) = 1
                  /\ cache[i] = model_dump_json(run)
           /\ StatusOf(i) # "generated" => cache[i] = startCache[i]
    /\ \A i \in Range(stores) : Count(stores, i) = 1 /\ Count(calls, i) = 1
    /\ \A i \in Range(calls) :
           i \in Range(stores)
               \/ (i = calls[Len(calls)] /\ pc \in {"store", "failed", "killed"})
    /\ pc = "failed" => CurrentId \notin Range(stores)

C25_Witness ==
    /\ pc = "done"
    /\ M = 3
    /\ startFrom = 0
    /\ Statuses(progress) = <<"reused-output", "reused-cache", "generated">>
    /\ calls = <<3>>
    /\ stores = <<3>>
    /\ cache[3] = model_dump_json(run)

\* ------------------------------------------------------------------------
\* Properties of the output store during a run
\* ------------------------------------------------------------------------
\* Startup is over and no item has been processed yet.
RightAfterStartup == pc = "loop" /\ idx = startFrom /\ processed = 0

\* The entries are in planned order, one per identifier.
InPlannedOrder(entries) ==
    \A j, k \in 1..Len(entries) : j < k => entries[j].id < entries[k].id

\* C26: in resume mode (resumeFromCache, no forceRefresh), right after
\* startup the output store holds entries of the prior output only, one
\* for each planned identifier the prior output had and none for any other
\* identifier, in planned order.
C26_StartupKeepsPlannedEntries ==
    (RightAfterStartup /\ resume /\ ~force) =>
        /\ IdsOf(output) = IdsOf(startOutput) \cap PlannedIds(M)
        /\ Range(output) \subseteq Range(startOutput)
        /\ InPlannedOrder(output)

C26_Witness ==
    /\ RightAfterStartup
    /\ resume
    /\ ~force
    /\ M = 2
    /\ OutputIds(startOutput) = <<3, 2>>
    /\ OutputIds(output) = <<2>>

\* Startup is over: the output store has been reset or normalized.
AfterStartup ==
    \/ pc \in {"loop", "call", "store", "store_flush", "persist", "notify",
                "end_manifest", "done", "failed", "cacheerror"}
    \/ pc \in {"write_open", "write_flush"} /\ wr.ret # "loop" /\ ~EmptyInput

\* An aggregate is being written, or has just been.
WritingManifest == pc \in {"write_open", "write_flush"} /\ wr.file = "manifest"

\* The end-of-run rewrite of the output store is done.
FinalOutputWritten ==
    \/ pc \in {"end_manifest", "done"}
    \/ WritingManifest /\ wr.ret = "done"

\* C27 as stated: in every state of a run after startup the entries of the
\* output store are in planned order.
C27_OutputAlwaysInPlannedOrder ==
    AfterStartup => InPlannedOrder(output)

\* C27 amended: after startup the generation output holds the entries kept
\* from the prior output in planned order, followed by the entries this
\* run has appended in planned order, and is in planned order as a whole
\* at the end of a successful run; the evaluation report lists its records
\* in planned order in every state; every manifest written summarises
\* exactly the entries the output store holds at that moment.
C27_PlannedOrderWithinKeptAndAppended ==
    /\ AfterStartup =>
           LET kept == SelectSeq(output, LAMBDA e : e.id \in KeptAtStartup)
               appended ==
                   SelectSeq(output, LAMBDA e : e.id \notin KeptAtStartup)
           IN  /\ (kind = "generation" /\ ~FinalOutputWritten) =>
                      /\ InPlannedOrder(kept)
                      /\ InPlannedOrder(appended)
                      /\ output = kept \o appended
               /\ kind = "evaluation" => InPlannedOrder(output)
               /\ FinalOutputWritten => InPlannedOrder(output)
    /\ (AfterStartup /\ WritingManifest) =>
           /\ Range(wr.entries) = Range(output)
           /\ Len(wr.entries) = Len(output)

C27_Witness ==
    /\ kind = "generation"
    /\ WritingManifest
    /\ resume
    /\ ~force
    /\ M = 3
    /\ OutputIds(startOutput) = <<1, 3>>
    /\ OutputIds(output) = <<1, 3, 2>>
    /\ OutputIds(wr.entries) = <<1, 2, 3>>

\* ------------------------------------------------------------------------
\* A retry loop that meets rate-limit errors only
\* ------------------------------------------------------------------------
\* The call has failed in a retry loop all of whose requests were answered
\* with a transient rate-limit error.
LoopExhausted ==
    /\ cpc = "raised"
    /\ LoopRequests # <<>>
    /\ \A j \in 1..Len(LoopRequests) :
           IsTransientRateLimit(LoopRequests[j].reply)

Unrecoverable == {"nojson", "nonobject", "unbalanced"}

MalformedErrors == {"no_json_object", "not_an_object", "json_decode_error"}

\* C29: on the fallback path a successful reply whose text holds no
\* recoverable JSON object (no parsable JSON, or a top-level value that is
\* no object) ends the call with an error: it is the last provider request
\* of the call, no sleep and no retry follows it, no payload is validated
\* or repaired and no value is returned.
C29_MalformedFallbackReplyIsTerminal ==
    \A j \in 1..Len(reqLog) :
        (reqLog[j].path = "fallback" /\ reqLog[j].reply.code = 200
            /\ reqLog[j].reply.body \in Unrecoverable) =>
            /\ j = Len(reqLog)
            /\ cpc \in {"response", "raised"}
            /\ cpc = "raised" => outcome \in MalformedErrors
            /\ outcome # "value"
            /\ steps = <<>>
            /\ \A z \in Range(sleepLog) : z.after < j

C29_Witness ==
    /\ cpc = "raised"
    /\ path = "fallback"
    /\ settings.maxRetries = 2
    /\ Len(FallbackRequests) = 1
    /\ ResponseBody = "nonobject"
    /\ outcome = "not_an_object"
    /\ steps = <<>>

\* ------------------------------------------------------------------------
\* Frame of the pacing state
\* ------------------------------------------------------------------------
\* The step is the pacing step that precedes a provider request.
PacingStep == cpc = "slot" /\ cpc' = "request"

\* The minimum interval of a model as the settings and the name give it.
HasPositiveInterval(m) ==
    IF settings.minInterval # NoDelay THEN settings.minInterval > 0
    ELSE m \in {"gemini-2.5-flash-lite", "gemma-3-27b-it"}

\* C30: the table of next request times changes only in the pacing step
\* that precedes a provider request, and only in the entry of the model
\* requested; the pacing step of a model whose minimum interval is not
\* positive neither sleeps nor changes the table; no step but such a
\* pacing step of a model with a positive interval takes a pacing sleep.
C30_PacingStateFrame ==
    [][/\ nextNotBefore' # nextNotBefore =>
              /\ PacingStep
              /\ HasPositiveInterval(model)
              /\ \A m \in Models \ {model} :
                     nextNotBefore'[m] = nextNotBefore[m]
              /\ nextNotBefore'[model] > now
       /\ (PacingStep /\ ~HasPositiveInterval(model)) =>
              /\ nextNotBefore' = nextNotBefore
              /\ sleepLog' = sleepLog
              /\ now' = now
       /\ (Len(sleepLog') > Len(sleepLog)
              /\ sleepLog'[Len(sleepLog')].kind = "pacing") =>
              PacingStep /\ HasPositiveInterval(model)
      ]_vars

C30_Witness ==
    /\ cpc = "request"
    /\ ncalls = 2
    /\ model = "gemma-3-27b-it"
    /\ reqLog = <<>>
    /\ nextNotBefore[model] = now + 21
    /\ nextNotBefore["gemini-2.5-flash-lite"] > 0
    /\ nextNotBefore["gemini-2.5-flash-lite"] # nextNotBefore[model]
    /\ nextNotBefore["custom-model"] = 0

\* ------------------------------------------------------------------------
\* Uniqueness of the identifiers in the output store
\* ------------------------------------------------------------------------
EachIdOnce(entries) ==
    \A j, k \in 1..Len(entries) : j # k => entries[j].id # entries[k].id

\* C35: the planned identifiers being pairwise distinct, in every state of
\* a run after startup no identifier occurs twice in the output store,
\* whatever startFrom, resumeFromCache and forceRefresh are and whatever
\* the output held before, a prior output listing an identifier twice
\* included.
C35_EachIdentifierAtMostOnce ==
    AfterStartup => EachIdOnce(output)

C35_Witness ==
    /\ pc = "notify"
    /\ run = 1
    /\ kind = "generation"
    /\ resume
    /\ ~force
    /\ M = 2
    /\ startFrom = 0
    /\ OutputIds(startOutput) = <<1, 1>>
    /\ OutputIds(output) = <<1, 2>>

\* ------------------------------------------------------------------------
\* repair_payload_to_schema_constraints applied to its own result
\* ------------------------------------------------------------------------
\* Bound of the number of applications
MaxRepairs == 3

\* The function is applied to what it returned, with the same schema.
ApplyRepairAgain ==
    /\ fnOut # <<>>
    /\ Len(fnOut) < MaxRepairs
    /\ fnOut' = Append(fnOut,
                    repair_payload_to_schema_constraints(fnOut[Len(fnOut)],
                                                         fnIn.schema))
    /\ UNCHANGED <<orchVars, clientVars, raceVars, fnIn>>

NextRepairAgain == ApplyRepair \/ ApplyRepairAgain

SpecRepairAgain == InitRepair /\ [][NextRepairAgain]_vars

\* Some string the repair truncates (it is longer than its maxLength, in
\* an object property or among the items an array keeps) begins with
\* whitespace.
RECURSIVE TruncatesLeadingSpace(_, _)
TruncatesLeadingSpace(payload, schema) ==
    IF schema.type = "object" /\ IsDict(payload)
    THEN \E key \in DOMAIN payload.dict \cap DOMAIN schema.properties :
             TruncatesLeadingSpace(payload.dict[key], schema.properties[key])
    ELSE IF schema.type = "array" /\ IsList(payload)
    THEN /\ schema.items.type # "absent"
         /\ \E k \in 1..Len(payload.list) :
                /\ schema.maxItems # NoLimit => k <= schema.maxItems
                /\ TruncatesLeadingSpace(payload.list[k], schema.items)
    ELSE IF schema.type = "string" /\ IsStr(payload)
    THEN /\ schema.maxLength # NoLimit
         /\ Len(payload.str) > schema.maxLength
         /\ Head(payload.str) = " "
    ELSE FALSE

\* C38 as stated: repairing the repaired payload gives the same value, for
\* every payload and schema.
C38_RepairIsIdempotent ==
    Len(fnOut) >= 2 => fnOut[2] = fnOut[1]

\* C38 amended: repairing the repaired payload gives the same value for
\* every payload in which no string that is longer than its maxLength
\* begins with whitespace (over-long strings that end with whitespace
\* included); in every case the second repair returns a value that a third
\* repair leaves as it is.
C38_RepairStableUnlessLeadingSpaceTruncated ==
    /\ (Len(fnOut) >= 2
           /\ ~TruncatesLeadingSpace(fnIn.payload, fnIn.schema)) =>
           fnOut[2] = fnOut[1]
    /\ Len(fnOut) >= 3 => fnOut[3] = fnOut[2]

C38_Witness ==
    /\ Len(fnOut) = 3
    /\ fnIn.payload = Str(<<"a", " ", "a", " ">>)
    /\ fnIn.schema = StringSchema(3)
    /\ fnOut[1] = Str(<<"a", Ellipsis>>)
    /\ fnOut[2] = fnOut[1]
    /\ fnOut[3] = fnOut[1]

\* ------------------------------------------------------------------------
\* Frame of a rejected run and of the items below startFrom
\* ------------------------------------------------------------------------
\* C36: a run rejected because startFrom is out of range has changed
\* nothing: the output store, the aggregate and the replay cache are as the
\* run found them, also when the run has forceRefresh or no
\* resumeFromCache; no progress event was emitted, the provider was not
\* called and the cache was neither read nor written.
C36_RejectedRunChangesNothing ==
    pc = "rejected" =>
        /\ startFrom >= M
        /\ output = startOutput
        /\ aggregate = startAggregate
        /\ cache = startCache
        /\ progress = <<>>
        /\ calls = <<>>
        /\ loads = <<>>
        /\ stores = <<>>
        /\ persisted = {}

C36_Witness ==
    /\ pc = "rejected"
    /\ force
    /\ ~resume
    /\ M = 2
    /\ startFrom = 2
    /\ OutputIds(output) = <<1, 2>>
    /\ aggregate = Summary(kind, output)
    /\ cache[1] # AbsentFile

\* Planned items whose index is below startFrom.
BelowStartFrom == {i \in PlannedIds(M) : i <= startFrom}

\* C37: for a planned item with index below startFrom the provider is not
\* called, the cache is neither read nor written and no progress event is
\* emitted; at the end of a successful run in resume mode (resumeFromCache,
\* no forceRefresh) the entry the prior output had for such an item is in
\* the output, with its prior content, and counted in the aggregate; at the
\* end of a run that reset the output no such item is in the output.
C37_ItemsBelowStartFromUntouched ==
    /\ \A i \in BelowStartFrom :
           /\ i \notin Range(calls)
           /\ i \notin Range(loads)
           /\ i \notin Range(stores)
           /\ i \notin EventIds(progress)
           /\ cache[i] = startCache[i]
    /\ pc = "done" =>
           \A i \in BelowStartFrom :
               IF ResetsOutput
               THEN i \notin IdsOf(output)
               ELSE /\ (i \in IdsOf(output)) = (i \in StartPlanned)
                    /\ i \in StartPlanned =>
                           /\ [id |-> i,
                               val |-> FilterExisting(startOutput, M)[i]]
                                  \in Range(output)
                           /\ aggregate = Summary(kind, output)
                           /\ aggregate.total >= Cardinality(BelowStartFrom \cap StartPlanned)

C37_Witness ==
    /\ pc = "done"
    /\ run = 1
    /\ resume
    /\ ~force
    /\ M = 3
    /\ startFrom = 2
    /\ OutputIds(startOutput) = <<4, 1>>
    /\ output = <<[id |-> 1, val |-> 0], [id |-> 3, val |-> 1]>>
    /\ calls = <<3>>
    /\ aggregate.total = 2

\* Its counterpart in a run that reset the output.
ResetRunEndsWithoutItemsBelow ==
    /\ pc = "done"
    /\ ~resume
    /\ M = 3
    /\ startFrom = 2
    /\ OutputIds(startOutput) = <<1, 2>>
    /\ OutputIds(output) = <<3>>

\* ------------------------------------------------------------------------
\* A run repeated over the same plan
\* ------------------------------------------------------------------------
\* The run follows a successful run that processed all M planned items, and
\* resumes from index 0 without forceRefresh.
RepeatsFullRun ==
    /\ run = 2
    /\ prev.outcome = "done"
    /\ prev.completed = PlannedIds(M)
    /\ resume
    /\ ~force
    /\ startFrom = 0

\* C33: a run with resumeFromCache, without forceRefresh and from index 0
\* that follows a successful run over all M planned items calls the
\* provider for no item, reads and writes no cache entry, reports the k-th
\* item as reused-output, cannot fail, and has the output store and the
\* aggregate it found both between two items and when it ends.
C33_RepeatedRunChangesNothing ==
    RepeatsFullRun =>
        /\ calls = <<>>
        /\ loads = <<>>
        /\ stores = <<>>
        /\ cache = startCache
        /\ \A k \in 1..Len(progress) :
               progress[k] = <<k, M, k, "reused-output">>
        /\ pc \in {"start", "loop", "write_open", "write_flush",
                   "end_manifest", "done", "killed"}
        /\ pc \in {"start", "loop", "end_manifest", "done"} =>
               /\ output = startOutput
               /\ aggregate = startAggregate
        /\ pc = "done" => Len(progress) = M

C33_Witness ==
    /\ RepeatsFullRun
    /\ pc = "done"
    /\ kind = "generation"
    /\ M = 3
    /\ Statuses(progress) = <<"reused-output", "reused-output", "reused-output">>
    /\ output = [i \in 1..3 |-> [id |-> i, val |-> 1]]
    /\ output = startOutput
    /\ aggregate = startAggregate
    /\ calls = <<>>

\* ------------------------------------------------------------------------
\* A run replayed from the cache
\* ------------------------------------------------------------------------
\* The first run ended successfully having generated every planned item
\* (the cache holds its result under every key), the output was removed,
\* and this run resumes without forceRefresh from an index in range.
ReplaysFullRun ==
    /\ run = 2
    /\ prev.outcome = "done"
    /\ \A i \in PlannedIds(M) : startCache[i] = model_dump_json(1)
    /\ startOutput = <<>>
    /\ resume
    /\ ~force
    /\ startFrom < M

\* C34: the key under which an item is looked up and stored is that of the
\* item, whatever startFrom and the resume flags are; so a resume run
\* without forceRefresh from any index s < M, started without the output
\* after a run that generated all M items, calls the provider for no item
\* and writes no cache entry, finds every item it processes in the cache
\* under the item's key and reports it reused-cache, and writes for it the
\* entry the first run wrote.
C34_ReplayFromCacheReproducesOutput ==
    /\ pc \in {"call", "store", "store_flush", "persist"} =>
           CacheKey = CurrentId
    /\ ReplaysFullRun =>
           /\ calls = <<>>
           /\ stores = <<>>
           /\ cache = startCache
           /\ loads = [k \in 1..Len(loads) |-> startFrom + k]
           /\ \A k \in 1..Len(progress) :
                  progress[k] = <<k, M - startFrom, startFrom + k, "reused-cache">>
           /\ pc \notin {"call", "store", "store_flush", "failed",
                         "cacheerror", "readerror", "rejected"}
           /\ \A e \in Range(output) : e.id > startFrom /\ e.val = 1
           /\ pc = "done" =>
                  /\ output = [k \in 1..(M - startFrom) |->
                                  [id |-> startFrom + k, val |-> 1]]
                  /\ aggregate = Summary(kind, output)

C34_Witness ==
    /\ ReplaysFullRun
    /\ pc = "done"
    /\ M = 3
    /\ startFrom = 1
    /\ loads = <<2, 3>>
    /\ Statuses(progress) = <<"reused-cache", "reused-cache">>
    /\ output = <<[id |-> 2, val |-> 1], [id |-> 3, val |-> 1]>>

\* ------------------------------------------------------------------------
\* The fallback protocol within one call
\* ------------------------------------------------------------------------
\* C32: in one generate_structured call the fallback protocol is entered
\* at most once, after the last native request, and its retry loop starts
\* again at attempt 0 with the full budget: each of the two loops makes at
\* most max-retries + 1 requests, the call at most 2 * (max-retries + 1);
\* an unsupported-feature error answered to a fallback request is the last
\* request of the call, which ends with the translated error.
C32_FallbackEnteredAtMostOnce ==
    LET n == Len(NativeRequests)
        f == Len(FallbackRequests)
    IN  /\ reqLog = NativeRequests \o FallbackRequests
        /\ n <= settings.maxRetries + 1
        /\ f <= settings.maxRetries + 1
        /\ Len(reqLog) <= 2 * (settings.maxRetries + 1)
        /\ \A k \in 1..f : FallbackRequests[k].attempt = k - 1
        /\ Cardinality({j \in 1..Len(reqLog) :
               reqLog[j].path = "native"
                   /\ IsUnsupportedFeature(reqLog[j].reply)}) <= 1
        /\ (path = "fallback") = (n >= 1 /\ IsUnsupportedFeature(reqLog[n].reply))
        /\ \A j \in 1..Len(reqLog) :
               (reqLog[j].path = "fallback"
                   /\ IsUnsupportedFeature(reqLog[j].reply)) =>
                   /\ j = Len(reqLog)
                   /\ cpc = "raised"
                   /\ outcome = "request_failed"
                   /\ path = "fallback"
                   /\ \A z \in Range(sleepLog) : z.after < j

C32_Witness ==
    /\ cpc = "raised"
    /\ outcome = "request_failed"
    /\ settings.maxRetries = 2
    /\ Len(NativeRequests) = 3
    /\ Len(FallbackRequests) = 3
    /\ IsUnsupportedFeature(reqLog[3].reply)
    /\ IsUnsupportedFeature(reqLog[6].reply)
    /\ reqLog[6].attempt = 2

\* ------------------------------------------------------------------------
\* Monotonicity of the pacing state
\* ------------------------------------------------------------------------
\* C39: on one client the time recorded for a model as its earliest next
\* request never decreases, the clock never goes back, and every pacing
\* step of a model with a positive minimum interval sets the time of that
\* model to the time at the end of the step plus the interval, which is
\* greater than the time recorded before and at least the time at the
\* start of the step plus the interval.
C39_NextRequestTimeNeverDecreases ==
    [][/\ \A m \in Models : nextNotBefore'[m] >= nextNotBefore[m]
       /\ now' >= now
       /\ (PacingStep /\ HasPositiveInterval(model)) =>
              LET interval == MinimumRequestInterval(settings, model)
              IN  /\ interval > 0
                  /\ nextNotBefore'[model] > nextNotBefore[model]
                  /\ nextNotBefore'[model] >= now + interval
                  /\ nextNotBefore'[model] = now' + interval
                  /\ now' >= nextNotBefore[model]
      ]_vars

C39_Witness ==
    /\ cpc = "request"
    /\ ncalls = 1
    /\ model = "gemini-2.5-flash-lite"
    /\ attempt = 1
    /\ now = 41
    /\ nextNotBefore[model] = 82
    /\ Len(sleepLog) = 2
    /\ sleepLog[2].kind = "pacing"
    /\ sleepLog[2].dur = 31

\* ------------------------------------------------------------------------
\* Two runs at the same time on one output path
\* ------------------------------------------------------------------------
\* Bound of the plan the two runs share
RaceItems == 2

\* What a run holds in its own memory; the output file, the manifest and
\* the cache directory are shared.
LocalState ==
    [startFrom |-> startFrom, resume |-> resume, force |-> force,
     byId |-> byId, idx |-> idx, pc |-> pc, processed |-> processed,
     progress |-> progress, calls |-> calls, loads |-> loads,
     stores |-> stores, cur |-> cur, wr |-> wr, persisted |-> persisted,
     run |-> run]

\* A run that has been started and has not taken a step.
FreshRun(s, n) ==
    [startFrom |-> s, resume |-> TRUE, force |-> FALSE, byId |-> EmptyDict,
     idx |-> 0, pc |-> "start", processed |-> 0, progress |-> <<>>,
     calls |-> <<>>, loads |-> <<>>, stores |-> <<>>, cur |-> NoCur,
     wr |-> NoWrite, persisted |-> {}, run |-> n]

\* Two generation runs in resume mode over the same plan, started against
\* the same output path, each from an index of its own.
InitRace ==
    /\ kind = "generation"
    /\ M = RaceItems
    /\ output \in {<<>>, <<[id |-> 1, val |-> 0]>>}
    /\ aggregate = Summary(kind, output)
    /\ cache = EmptyCache
    /\ \E s \in 0..(M - 1) :
           /\ startFrom = FreshRun(s, 1).startFrom
           /\ resume = FreshRun(s, 1).resume
           /\ force = FreshRun(s, 1).force
           /\ byId = FreshRun(s, 1).byId
           /\ idx = FreshRun(s, 1).idx
           /\ pc = FreshRun(s, 1).pc
           /\ processed = FreshRun(s, 1).processed
           /\ progress = FreshRun(s, 1).progress
           /\ calls = FreshRun(s, 1).calls
           /\ loads = FreshRun(s, 1).loads
           /\ stores = FreshRun(s, 1).stores
           /\ cur = FreshRun(s, 1).cur
           /\ wr = FreshRun(s, 1).wr
           /\ persisted = FreshRun(s, 1).persisted
           /\ run = FreshRun(s, 1).run
    /\ prev = NoPrev
    /\ startOutput = output
    /\ startAggregate = aggregate
    /\ startCache = cache
    /\ settings = DefaultSettings
    /\ ClientIdle
    /\ PureIdle
    /\ peer \in {FreshRun(s, 2) : s \in 0..(M - 1)}
    /\ interleaved = FALSE

\* A run has begun and has not ended.
MidRun(p) == p \notin Terminal \cup {"start"}

\* The operating system runs the other process: the run that was running
\* keeps its memory and its position, the other goes on from where it was.
ContextSwitch ==
    /\ peer # NoPeer
    /\ peer.pc \notin Terminal
    /\ peer' = LocalState
    /\ interleaved' = (interleaved \/ MidRun(pc))
    /\ startFrom' = peer.startFrom
    /\ resume' = peer.resume
    /\ force' = peer.force
    /\ byId' = peer.byId
    /\ idx' = peer.idx
    /\ pc' = peer.pc
    /\ processed' = peer.processed
    /\ progress' = peer.progress
    /\ calls' = peer.calls
    /\ loads' = peer.loads
    /\ stores' = peer.stores
    /\ cur' = peer.cur
    /\ wr' = peer.wr
    /\ persisted' = peer.persisted
    /\ run' = peer.run
    /\ UNCHANGED <<kind, M, output, aggregate, cache, prev, startOutput,
                   startAggregate, startCache, clientVars, pureVars>>

\* The steps of a generation run in resume mode whose start_from is in
\* range.
RaceRunStep ==
    \/ LoadExistingResume
    \/ ReuseOutput
    \/ LookupCache
    \/ GenerateStructuredOk
    \/ GenerateStructuredError
    \/ StoreCacheOpen
    \/ StoreCacheFlush
    \/ PersistItem
    \/ NotifyProgress
    \/ WriteFinalOutput
    \/ WriteFinalManifest
    \/ WriteTextOpen
    \/ WriteTextFlush

NextRace == RaceRunStep \/ ContextSwitch

SpecRace == InitRace /\ [][NextRace]_vars

BothRunsDone == pc = "done" /\ peer # NoPeer /\ peer.pc = "done"

\* Items one of the two runs has reported as completed.
CompletedByEither == EventIds(progress) \cup EventIds(peer.progress)

\* The output store is the planned-order list, each identifier once, of the
\* items the prior output held and the items the two runs completed.
OutputListsCompleted ==
    OutputIds(output) = PlannedOrder(StartPlanned \cup CompletedByEither, M)

\* C31: two runs against one output path race. When one run has ended
\* before the other takes its first step, the output store ends as the
\* planned-order list of the completed items, each once, and the manifest
\* summarises it; when their startup, append and rewrite steps interleave
\* there are executions after which an item completed by one run is missing
\* from the output store, or the manifest does not summarise it.
C31_RunsRaceOnlyWhenInterleaved ==
    (BothRunsDone /\ ~interleaved) =>
        /\ OutputListsCompleted
        /\ aggregate = Summary(kind, output)

C31_Witness ==
    /\ BothRunsDone
    /\ interleaved
    /\ \E i \in CompletedByEither : i \notin IdsOf(output)
    /\ aggregate # Summary(kind, output)

\* Interleaved runs that end with an identifier listed twice.
RaceListsIdentifierTwice ==
    /\ peer # NoPeer
    /\ interleaved
    /\ \E j, k \in 1..Len(output) : j # k /\ output[j].id = output[k].id

====
